---- MODULE Spec2Model ----
(***************************************************************************)
(* Model of xmodel_rest.client.RestClient: the batch planner               *)
(* (_do_http_method_on_objs) driven by send_objs / delete_objs, the URL    *)
(* generators (url_for_send, url_for_delete, url_for_endpoint) and the     *)
(* response reconciler (_send_objs_to_url, parse_errors_from_send_response)*)
(* the request executor (_wrap_request) with what its callers make of its  *)
(* outcome, and repeated url_for_endpoint look-ups on one model.           *)
(***************************************************************************)
EXTENDS Integers, Sequences, FiniteSets, TLC

\* ---------------------------------------------------------------- bounds
MaxObjs == 3
MaxSendLimit == 2
\* retry directives the error handlers set during one call
MaxMarks == 1
\* objects of a call whose error handlers may set any number of directives
MaxRetryObjs == 2
\* objects of a call whose responses range over the wide set
MaxStatusObjs == 2

\* methods, preferences and id values of one url_for_endpoint call
MaxMethods == 2
MaxPrefs == 2
MaxIds == 2
\* url_for_endpoint calls on one model
MaxCalls == 3

\* ------------------------------------------------------- small utilities
Min(a, b) == IF a <= b THEN a ELSE b

CeilDiv(a, b) == (a + b - 1) \div b

Range(s) == {s[i] : i \in 1..Len(s)}

RECURSIVE Reverse(_)
Reverse(s) == IF s = <<>> THEN <<>> ELSE Append(Reverse(Tail(s)), Head(s))

RECURSIVE SelectIn(_, _)
\* the elements of s that are in set S, in the order of s
SelectIn(s, S) ==
    IF s = <<>> THEN <<>>
    ELSE IF Head(s) \in S THEN <<Head(s)>> \o SelectIn(Tail(s), S)
         ELSE SelectIn(Tail(s), S)

\* ------------------------------------------------------------ URL model
HTTPGet == "GET"
HTTPPatch == "PATCH"
HTTPPost == "POST"
HTTPPut == "PUT"
HTTPDelete == "DELETE"

NoUrl == [kind |-> "none"]

\* a declared candidate: path placeholder "{id}" or none, methods, singular
MkUrl(path, methods, singular) ==
    [path |-> path, methods |-> methods, singular |-> singular]

\* xrest.default_model_urls.DefaultModelURLs
DefaultModelURLs ==
    << MkUrl("{id}", {HTTPGet, HTTPPatch, HTTPDelete}, TRUE),
       MkUrl("", {HTTPGet, HTTPPatch, HTTPDelete}, FALSE) >>

\* a model whose collection endpoint only creates; deletes go one by one
CreateOnlyURLs ==
    << MkUrl("", {HTTPPost}, FALSE),
       MkUrl("{id}", {HTTPDelete}, TRUE) >>

\* a model that creates through its collection and updates one by one
CreateManyURLs ==
    << MkUrl("", {HTTPPost}, FALSE),
       MkUrl("{id}", {HTTPPut, HTTPDelete}, TRUE) >>

\* the RestStructure.model_urls a call may run under
ModelUrlChoices ==
    {DefaultModelURLs, CreateOnlyURLs, CreateManyURLs}

\* xurls URL.is_valid(secondary_values=..., attach_values=True): every
\* placeholder of the path can be filled; the only placeholder is {id},
\* filled from one of the secondary objects.
is_valid(cand, secondary_values, hasId) ==
    \/ cand.path # "{id}"
    \/ \E i \in 1..Len(secondary_values) : hasId[secondary_values[i]]

\* `singular is not None and candidate_url.singular != singular` negated;
\* a preference is "True", "False" or "None"
SingularFits(singular, cand) ==
    \/ singular = "None"
    \/ singular = (IF cand.singular THEN "True" ELSE "False")

\* RestClient.url_for_endpoint: loops singular_values (outer), methods
\* (middle), candidates (inner) and returns the first candidate that fits,
\* with exactly the method it was reached under.
Eligible(cands, methods, singular_values, secondary_values, hasId) ==
    { t \in (1..Len(singular_values)) \X (1..Len(methods)) \X (1..Len(cands)) :
        /\ SingularFits(singular_values[t[1]], cands[t[3]])
        /\ methods[t[2]] \in cands[t[3]].methods
        /\ is_valid(cands[t[3]], secondary_values, hasId) }

\* loops nested with the methods outermost
LoopRank_method_major(t, nm, nc) ==
    ((t[2] - 1) * (MaxPrefs + 2) + (t[1] - 1)) * nc + t[3]

LoopRank(t, nm, nc) == ((t[1] - 1) * nm + (t[2] - 1)) * nc + t[3]

url_for_endpoint(cands, methods, url, singular_values, secondary_values, raise_if_none, hasId) ==
    LET el == Eligible(cands, methods, singular_values, secondary_values, hasId)
        nm == Len(methods)
        nc == Len(cands)
    IN IF el # {}
       THEN LET t == CHOOSE x \in el :
                        \A y \in el : LoopRank(x, nm, nc) <= LoopRank(y, nm, nc)
            IN [kind |-> "url",
                idx |-> t[3],
                path |-> cands[t[3]].path,
                singular |-> cands[t[3]].singular,
                method |-> methods[t[2]],
                appended |-> url]
       ELSE IF raise_if_none
            THEN [kind |-> "raise", names |-> secondary_values]
            ELSE NoUrl

\* a generator that prefers singular candidates whatever the number of
\* objects
SingularValuesFor_one(model_objs) == <<"True", "None">>

SingularValuesFor(model_objs) ==
    IF Len(model_objs) > 1 THEN <<"False">> ELSE <<"True", "None">>

\* RestClient.url_for_delete
url_for_delete(cands, url, model_objs, hasId) ==
    url_for_endpoint(cands, <<HTTPDelete>>, url, SingularValuesFor(model_objs),
                     model_objs, ~(Len(model_objs) > 1), hasId)

\* a generator that answers use-singular where the lookup raises
Generated_no_raise(u, models) ==
    IF u.kind = "url" THEN [kind |-> "url", url |-> u, models |-> models]
    ELSE [kind |-> "singular"]

\* the result of a generator: a URL with the objects it selects, the
\* use-singular signal, or a raised XynRestError
Generated(u, models) ==
    IF u.kind = "url" THEN [kind |-> "url", url |-> u, models |-> models]
    ELSE IF u.kind = "raise" THEN u
    ELSE [kind |-> "singular"]

\* a url_for_send that offers every object to the POST URL
url_for_send_post_all(cands, url, model_objs, hasId) ==
    LET multi == Len(model_objs) > 1
        sv == SingularValuesFor(model_objs)
        patch == url_for_endpoint(cands, <<HTTPPatch>>, url, sv, model_objs,
                                  FALSE, hasId)
        created == SelectIn(model_objs, {o \in Range(model_objs) : ~hasId[o]})
        post == url_for_endpoint(cands, <<HTTPPost>>, "None", sv, created,
                                 ~multi, hasId)
        put == url_for_endpoint(cands, <<HTTPPut>>, "None", sv, model_objs,
                                ~multi, hasId)
    IN IF patch.kind = "url" THEN Generated(patch, model_objs)
       ELSE IF created # <<>> THEN Generated(post, model_objs)
       ELSE Generated(put, model_objs)

\* RestClient.url_for_send.  The local name `url` is rebound to the result
\* of the PATCH lookup, so the POST and PUT lookups receive that result
\* (None at that point) as the url to append.
url_for_send(cands, url, model_objs, hasId) ==
    LET multi == Len(model_objs) > 1
        sv == SingularValuesFor(model_objs)
        patch == url_for_endpoint(cands, <<HTTPPatch>>, url, sv, model_objs,
                                  FALSE, hasId)
        url2 == "None"
        created == SelectIn(model_objs, {o \in Range(model_objs) : ~hasId[o]})
        updated == SelectIn(model_objs, {o \in Range(model_objs) : hasId[o]})
        post == url_for_endpoint(cands, <<HTTPPost>>, url2, sv, created,
                                 ~multi, hasId)
        put == url_for_endpoint(cands, <<HTTPPut>>, url2, sv, updated,
                                ~multi, hasId)
    IN IF patch.kind = "url" THEN Generated(patch, model_objs)
       ELSE IF created # <<>> THEN Generated(post, created)
       ELSE Generated(put, updated)

\* ------------------------------------------------------- response state
\* xmodel.remote.response_state.ResponseStateRetryValue and "no directive"
NoRetry == "None"
AS_IS == "AS_IS"
EXPORT_JSON_AGAIN == "EXPORT_JSON_AGAIN"
Directives == {NoRetry, AS_IS, EXPORT_JSON_AGAIN}

\* try_count above which the planner stops requeueing an object
RetryCeiling == 4

\* A fresh ResponseState.  should_retry is the attribute the planner
\* assigns at the ceiling and after a requeue; should_retry_send is the
\* one retry_send() sets and the planner reads.
FreshState ==
    [had_error |-> FALSE, response_code |-> 0, errors |-> <<>>,
     try_count |-> 0, did_send |-> FALSE,
     should_retry_send |-> NoRetry, should_retry |-> "unset"]

\* ResponseState.reset(for_retry): clears the outcome of the last attempt
\* and the retry directive; the try count survives a reset for retry.
reset(r, for_retry) ==
    [r EXCEPT !.had_error = FALSE, !.response_code = 0, !.errors = <<>>,
              !.did_send = FALSE, !.should_retry_send = NoRetry,
              !.try_count = IF for_retry THEN @ ELSE 0]

\* ------------------------------------------------- raise sets for writes
\* DefaultStatusSetToRaiseForSending = frozenset(xloop([400, 401, 403], range(500, 599)))
DefaultStatusSetToRaiseForSending == {400, 401, 403} \cup (500..598)

\* RestClient.method_status_to_raise_by_default: None, or a dict from
\* method to set of statuses.  "custom" maps POST and PATCH to {404}.
CustomStatusSet == {404}
StatusMapChoices == {"None", "custom"}

statuses_to_raise(status_map, http_method) ==
    IF status_map = "custom" /\ http_method \in {HTTPPost, HTTPPatch}
    THEN CustomStatusSet
    ELSE DefaultStatusSetToRaiseForSending

\* a raise test that consults the raise set only
status_raises_set_only(status_map, http_method, status_code) ==
    status_code \in statuses_to_raise(status_map, http_method)

\* the raise test of parse_errors_from_send_response
status_raises(status_map, http_method, status_code) ==
    status_code >= 600 \/ status_code \in statuses_to_raise(status_map, http_method)

\* ------------------------------------------------------------ responses
\* A response as the reconciler sees it: the status, the text and the JSON
\* body ("list" of len elements, each a non-empty dict, or "bad": text that
\* does not parse as JSON).
Resp(status, text, body, len) ==
    [status |-> status, text |-> text, body |-> body, len |-> len]

\* responses offered to a request of n objects: a success with one
\* element per object, an error that does not raise by default, one that does
BasicResponses(n) ==
    {Resp(200, "[..]", "list", n), Resp(404, "err", "bad", 0),
     Resp(500, "err", "bad", 0)}

\* the same with more statuses and result lists shorter and longer than
\* the request
WideResponses(n) ==
    BasicResponses(n)
    \cup {Resp(200, "[]", "list", 0), Resp(500, "[..]", "list", n)}
    \cup {Resp(200, "[..]", "list", l) : l \in 1..(n + 1)}
    \cup {Resp(st, "err", "bad", 0) : st \in {300, 400, 599, 600}}

\* ----------------------------------------------------------- reconciler
\* a reconciler that raises before it has flagged the objects
parse_errors_raise_first(rs0, request_objs, resp, http_method, status_map) ==
    IF resp.status < 300
    THEN [rs |-> rs0, raised |-> FALSE]
    ELSE IF status_raises(status_map, http_method, resp.status)
    THEN [rs |-> rs0, raised |-> TRUE]
    ELSE [rs |-> [o \in DOMAIN rs0 |->
                    IF o \in Range(request_objs)
                    THEN [rs0[o] EXCEPT !.had_error = TRUE,
                                        !.response_code = resp.status,
                                        !.errors = <<resp.text>>]
                    ELSE rs0[o]],
          raised |-> FALSE]

\* a reconciler that flags the error and records neither code nor text
parse_errors_flag_only(rs0, request_objs, resp, http_method, status_map) ==
    IF resp.status < 300
    THEN [rs |-> rs0, raised |-> FALSE]
    ELSE [rs |-> [o \in DOMAIN rs0 |->
                    IF o \in Range(request_objs)
                    THEN [rs0[o] EXCEPT !.had_error = TRUE]
                    ELSE rs0[o]],
          raised |-> status_raises(status_map, http_method, resp.status)]

\* RestClient.parse_errors_from_send_response: on a status >= 300 every
\* object of the request gets the error state, then the status decides
\* whether XynRestError is raised.
parse_errors_from_send_response(rs0, request_objs, resp, http_method, status_map) ==
    IF resp.status < 300
    THEN [rs |-> rs0, raised |-> FALSE]
    ELSE [rs |-> [o \in DOMAIN rs0 |->
                    IF o \in Range(request_objs)
                    THEN [rs0[o] EXCEPT !.had_error = TRUE,
                                        !.response_code = resp.status,
                                        !.errors = <<resp.text>>]
                    ELSE rs0[o]],
          raised |-> status_raises(status_map, http_method, resp.status)]

\* a merge that starts over at the first element when the list runs out
MergedPositions_wrapping(rs0, request_objs, resp) ==
    IF resp.status < 300 /\ resp.body = "list" /\ resp.len > 0
    THEN {<<i, ((i - 1) % resp.len) + 1>> : i \in 1..Len(request_objs)}
    ELSE {}

\* lines 1551-1603: <<i, j>> when the object at position i of the request
\* is merged (obj.api.update_from_json) with element j of resp_list
MergedPositions(rs0, request_objs, resp) ==
    LET resp_list_len == IF resp.status < 300 /\ resp.body = "list"
                         THEN resp.len ELSE 0
    IN {<<i, i>> : i \in {x \in 1..Len(request_objs) :
          ~rs0[request_objs[x]].had_error /\ x <= resp_list_len}}

\* the error handlers of the objects that have an error: dirs[i] is the
\* retry directive the handlers leave on the object at position i
RunErrorHandlers(rs0, request_objs, dirs) ==
    [o \in DOMAIN rs0 |->
        IF \E i \in 1..Len(request_objs) : request_objs[i] = o /\ rs0[o].had_error
        THEN LET i == CHOOSE j \in 1..Len(request_objs) : request_objs[j] = o
             IN [rs0[o] EXCEPT !.should_retry_send = dirs[i]]
        ELSE rs0[o]]

\* RestClient._send_objs_to_url after the request has returned `resp`
_send_objs_to_url(rs0, url, request_objs, resp, dirs, status_map) ==
    LET parseFails == /\ resp.body = "bad"
                      /\ Len(resp.text) > 0
                      /\ resp.status < 300
        counted == [o \in DOMAIN rs0 |->
                      IF o \in Range(request_objs)
                      THEN [rs0[o] EXCEPT !.try_count = @ + 1, !.did_send = TRUE]
                      ELSE rs0[o]]
        parsed == parse_errors_from_send_response(
                      counted, request_objs, resp, url.method, status_map)
    IN IF parseFails
       THEN [rs |-> rs0, raised |-> "ValueError", merged |-> {}]
       ELSE IF parsed.raised
       THEN [rs |-> parsed.rs, raised |-> "XynRestError", merged |-> {}]
       ELSE [rs |-> RunErrorHandlers(parsed.rs, request_objs, dirs),
             raised |-> "no",
             merged |-> MergedPositions(parsed.rs, request_objs, resp)]

\* a delete that flags every object of the call
do_delete_request_flag_all(rs0, url, request_objs, resp) ==
    [rs |-> [o \in DOMAIN rs0 |->
               IF resp.status >= 300
               THEN [rs0[o] EXCEPT !.had_error = TRUE]
               ELSE rs0[o]],
     raised |-> "no",
     merged |-> {}]

\* do_delete_request of RestClient.delete_objs after the request returned
do_delete_request(rs0, url, request_objs, resp) ==
    [rs |-> [o \in DOMAIN rs0 |->
               IF o \in Range(request_objs) /\ resp.status >= 300
               THEN [rs0[o] EXCEPT !.had_error = TRUE]
               ELSE rs0[o]],
     raised |-> "no",
     merged |-> {}]

\* -------------------------------------------------- retry feed-back loop
\* a ceiling reached one transmission early
over_ceiling_early(r) == r.try_count >= RetryCeiling

\* the ceiling test of the planner
over_ceiling(r) == r.try_count > RetryCeiling

\* a planner that clears the state of an object it gives up on
drop_at_ceiling_clearing(r) == reset(r, TRUE)

\* what the planner does to the state of an object over the ceiling
drop_at_ceiling(r) == [r EXCEPT !.should_retry = "False"]

\* what the planner does to the state of an object it requeues
requeue_state(r) == [reset(r, TRUE) EXCEPT !.should_retry = "None"]

\* a planner that requeues the bare object whatever the directive
requeue_item_bare(item, should_retry) == [obj |-> item.obj, built |-> FALSE]

\* the queue entry for a requeued item: the buffered item for AS_IS, the
\* bare object (to be exported again) for EXPORT_JSON_AGAIN
requeue_item(item, should_retry) ==
    IF should_retry = AS_IS THEN item ELSE [obj |-> item.obj, built |-> FALSE]

RECURSIVE retry_feedback(_, _, _)
\* `for buffer_item in reversed(buffer_items_to_send)`: rev is the reversed
\* list; returns the queue and the response states after the loop
retry_feedback(rev, objects0, rs0) ==
    IF rev = <<>> THEN [objects |-> objects0, rs |-> rs0]
    ELSE LET item == Head(rev)
             o == item.obj
             r == rs0[o]
         IN IF ~r.had_error \/ r.should_retry_send = NoRetry
            THEN retry_feedback(Tail(rev), objects0, rs0)
            ELSE IF over_ceiling(r)
            THEN retry_feedback(Tail(rev), objects0,
                                [rs0 EXCEPT ![o] = drop_at_ceiling(r)])
            ELSE retry_feedback(Tail(rev),
                                <<requeue_item(item, r.should_retry_send)>> \o objects0,
                                [rs0 EXCEPT ![o] = requeue_state(r)])

\* ---------------------------------------------------------------- state
VARIABLES
    cfg,          \* the call: operation, objects, ids, model urls, url, raise
                  \* map, batch size, and what its responses and handlers do
    objects,      \* the pending deque of _do_http_method_on_objs
    buffer_list,  \* the staging buffer
    send_limit,   \* the batch size in force
    rs,           \* obj.api.response_state of every submitted object
    pc,           \* "run", "done" (returned) or "raised"
    err,          \* the exception that ended the call
    numRequests,  \* requests issued by the call so far
    lastReq,      \* the latest request and what became of it
    txCount,      \* per object: requests that carried it
    numMarks,     \* retry directives set by error handlers so far
    gens,         \* kinds of answer the url generator has given so far
    hist,         \* per object: what the planner has observed of it
    exported      \* the object object_to_request_item was called on by the
                  \* latest step, 0 when it was not called

\* one request through _wrap_request and what its caller makes of it
VARIABLES
    wcfg,         \* the request: caller, retry_requests, creating_objects
    wpc,          \* position in _wrap_request / in the caller
    session,      \* Session resource: sessions created, the current one
    response,     \* the response in hand
    exc,          \* the exception on its way to the caller
    wlog          \* handler calls, session resets and token refreshes so far

\* calls of url_for_endpoint on one model
VARIABLES
    ecfg,                      \* declared candidates, id query value, calls
    all_candidate_urls_cache,  \* the candidate copies of the latest call
    seen,                      \* <<arguments, result>> of every call so far
    ncalls,                    \* calls made so far
    last_call                  \* the latest call: arguments and result

planner_vars == <<cfg, objects, buffer_list, send_limit, rs, pc, err,
                  numRequests, lastReq, txCount, numMarks, gens, hist, exported>>

request_vars == <<wcfg, wpc, session, response, exc, wlog>>

endpoint_vars == <<ecfg, all_candidate_urls_cache, seen, ncalls, last_call>>

\* one read (get_url and the generator _get_objects returns)
VARIABLES
    gcfg,                      \* the pages the server holds, top, singular
    gpc,                       \* where the generator stands
    current_url_str,           \* the page to request, 0 for no URL
    results_pos,               \* position in the page's objs of the for loop
    object_count,              \* objects yielded so far
    glog,                      \* requests issued and objects yielded, in order
    gexc                       \* the exception the generator let out

read_vars == <<gcfg, gpc, current_url_str, results_pos, object_count, glog, gexc>>

\* the loop of _send_objs_to_url over the objects of one request
VARIABLES
    hcfg,                      \* the objects: had_error, error handlers
    hpos,                      \* position of the loop in request_objs
    hnext,                     \* position of the handler loop in error_handlers
    should_retry_send,         \* retry directive of each object
    hcalls,                    \* handler calls made, in order
    handled,                   \* objects whose chain ended with handled = True
    logged                     \* objects whose error was logged

handler_vars == <<hcfg, hpos, hnext, should_retry_send, hcalls, handled, logged>>

\* execution contexts that make requests side by side
VARIABLES
    csession,                  \* the Session resource of each context
    cretry,                    \* api.settings.retry_requests of each context
    cpc,                       \* "try" or "again" (after a reset)
    cops,                      \* requests each context has finished
    clog,                      \* per context: its calls and resets, in order
    corder                     \* the contexts in the order they took steps

context_vars == <<csession, cretry, cpc, cops, clog, corder>>

vars == <<planner_vars, request_vars, endpoint_vars, read_vars, handler_vars, context_vars>>

Objs == 1..cfg.n

NoErr == [kind |-> "none", where |-> "none", names |-> <<>>]
NoReq == [objs |-> <<>>, selected |-> <<>>, keep |-> <<>>, url |-> NoUrl,
          status |-> 0, text |-> "", resp_list_len |-> 0,
          raised |-> "no", merged |-> {},
          after |-> <<>>, pending |-> 0, limit |-> 0]

\* hist[o]: yields = outcome of the latest export ("?" before the first),
\* ever = a retry directive was set on it, always = one was set after each
\* of its transmissions, lastErr = its latest transmission had an error,
\* hooks = did_send() calls
FreshHist == [yields |-> "?", ever |-> FALSE, always |-> TRUE,
              lastErr |-> FALSE, hooks |-> 0]

\* the item a queue or buffer entry stands for
ObjsOf(items) == [i \in 1..Len(items) |-> items[i].obj]

\* no response in hand, no exception under way, no call made yet
NoResponse == [status |-> 0, body |-> "none"]

NoExc == "none"

NoCall == [made |-> FALSE, methods |-> <<>>, given |-> FALSE,
           singular_values |-> <<>>, secondary_values |-> <<>>,
           raise_if_none |-> FALSE, order |-> <<>>, result |-> NoUrl]

\* no request is being followed
RequestIdle ==
    /\ wcfg = [caller |-> "none", retry_requests |-> "Default", ids |-> <<>>,
               singular |-> FALSE]
    /\ wpc = "idle"
    /\ session = [created |-> 0, current |-> 0]
    /\ response = NoResponse
    /\ exc = NoExc
    /\ wlog = <<>>

\* no url_for_endpoint call is being followed
EndpointIdle ==
    /\ ecfg = [model_urls |-> <<>>, id_value |-> [kind |-> "none", n |-> 0],
               calls |-> 0, pool |-> "none"]
    /\ all_candidate_urls_cache = <<>>
    /\ seen = {}
    /\ ncalls = 0
    /\ last_call = NoCall

\* top=None
NoTop == 0 - 1

\* no read is being followed
ReadIdle ==
    /\ gcfg = [pages |-> <<>>, top |-> NoTop, singular |-> FALSE]
    /\ gpc = "idle"
    /\ current_url_str = 0
    /\ results_pos = 0
    /\ object_count = 0
    /\ glog = <<>>
    /\ gexc = NoExc

\* no request is being reconciled object by object
HandlersIdle ==
    /\ hcfg = [n |-> 0, had_error |-> <<>>, local |-> <<>>, wide |-> 0]
    /\ hpos = 0
    /\ hnext = 0
    /\ should_retry_send = <<>>
    /\ hcalls = <<>>
    /\ handled = {}
    /\ logged = {}

\* no execution contexts are being followed
ContextsIdle ==
    /\ csession = <<>>
    /\ cretry = <<>>
    /\ cpc = <<>>
    /\ cops = <<>>
    /\ clog = <<>>
    /\ corder = <<>>

\* no send_objs / delete_objs call is being followed
PlannerIdle ==
    /\ cfg = [op |-> "none", n |-> 0, hasId |-> [o \in 1..MaxObjs |-> TRUE],
              model_urls |-> DefaultModelURLs, url |-> "None",
              status_map |-> "None", send_limit |-> 1,
              responses |-> "basic", marks |-> 0]
    /\ objects = <<>>
    /\ buffer_list = <<>>
    /\ send_limit = 1
    /\ rs = <<>>
    /\ pc = "idle"
    /\ err = NoErr
    /\ numRequests = 0
    /\ lastReq = NoReq
    /\ txCount = <<>>
    /\ numMarks = 0
    /\ gens = {}
    /\ hist = <<>>
    /\ exported = 0

\* _create_deque_verify_and_reset_http_state: every state reset, the
\* objects queued in the order given
Start ==
    /\ RequestIdle /\ EndpointIdle /\ ReadIdle /\ HandlersIdle /\ ContextsIdle
    /\ \A o \in 1..MaxObjs : o > cfg.n => cfg.hasId[o]
    /\ objects = [i \in 1..cfg.n |-> [obj |-> i, built |-> FALSE]]
    /\ buffer_list = <<>>
    /\ send_limit = cfg.send_limit
    /\ rs = [o \in 1..cfg.n |-> reset(FreshState, FALSE)]
    /\ pc = "run"
    /\ err = NoErr
    /\ numRequests = 0
    /\ lastReq = NoReq
    /\ txCount = [o \in 1..cfg.n |-> 0]
    /\ numMarks = 0
    /\ gens = {}
    /\ hist = [o \in 1..cfg.n |-> FreshHist]
    /\ exported = 0

\* a send or a delete whose error handlers set at most MaxMarks retry
\* directives
Init ==
    /\ cfg \in [op : {"send", "delete"},
                n : 0..MaxObjs,
                hasId : [1..MaxObjs -> BOOLEAN],
                model_urls : ModelUrlChoices,
                url : {"None"},
                status_map : {"None"},
                send_limit : 1..MaxSendLimit,
                responses : {"basic"},
                marks : {MaxMarks}]
    /\ Start

\* a send whose error handlers are free to ask for a retry every time
InitRetry ==
    /\ cfg \in [op : {"send"},
                n : 1..MaxRetryObjs,
                hasId : [1..MaxObjs -> BOOLEAN],
                model_urls : {DefaultModelURLs, CreateOnlyURLs},
                url : {"None"},
                status_map : {"None"},
                send_limit : 1..MaxSendLimit,
                responses : {"basic"},
                marks : {MaxRetryObjs * (RetryCeiling + 1)}]
    /\ Start

\* a send whose responses and raise map range over the wide sets
InitStatus ==
    /\ cfg \in [op : {"send"},
                n : 1..MaxStatusObjs,
                hasId : [1..MaxObjs -> BOOLEAN],
                model_urls : {DefaultModelURLs, CreateOnlyURLs},
                url : {"None"},
                status_map : StatusMapChoices,
                send_limit : 1..MaxSendLimit,
                responses : {"wide"},
                marks : {MaxMarks}]
    /\ Start

\* a planner that flushes only when the queue has run empty
FlushDue_queue_empty == Len(objects) <= 0

\* a planner that flushes one item late
FlushDue_late == Len(buffer_list) > send_limit \/ Len(objects) <= 0

\* the flush trigger of the planner loop
FlushDue == Len(buffer_list) >= send_limit \/ Len(objects) <= 0

\* a loop that carries on after an exception
LoopRuns_after_raise ==
    pc \in {"run", "raised"} /\ (Len(objects) > 0 \/ Len(buffer_list) > 0)

LoopRuns == pc = "run" /\ (Len(objects) > 0 \/ Len(buffer_list) > 0)

\* url_generator(model_objs=..., url=url) of the operation
url_generator(model_objs) ==
    IF cfg.op = "send"
    THEN url_for_send(cfg.model_urls, cfg.url, model_objs, cfg.hasId)
    ELSE Generated(url_for_delete(cfg.model_urls, cfg.url, model_objs, cfg.hasId),
                   model_objs)

\* object_to_request_item: may the export of obj yield a payload?  A
\* delete passes the object through; model_to_request_item of send_objs
\* yields None when obj.api.json() finds nothing to send, on a first export
\* as on the export of an object requeued with EXPORT_JSON_AGAIN.
MayYield(o) ==
    IF cfg.op = "delete" THEN {TRUE} ELSE {TRUE, FALSE}

\* a planner that sends the selected items last to first
buffer_items_to_send_reversed(buf, models) ==
    Reverse(IF Len(buf) = Len(models) THEN buf
            ELSE SelectSeq(buf, LAMBDA x : x.obj \in Range(models)))

\* buffer_items_to_send / buffer_items_to_keep
buffer_items_to_send(buf, models) ==
    IF Len(buf) = Len(models) THEN buf
    ELSE SelectSeq(buf, LAMBDA x : x.obj \in Range(models))

\* a planner that forgets the items the generator did not select
buffer_items_to_keep_none(buf, models) == <<>>

buffer_items_to_keep(buf, models) ==
    IF Len(buf) = Len(models) THEN <<>>
    ELSE SelectSeq(buf, LAMBDA x : x.obj \notin Range(models))

\* line 1368, isinstance(obj_or_buffer_item, RestModel): the queue entry is
\* a bare object, not an item built earlier
isinstance_RestModel(x) == ~x.built

\* --------------------------------------------------------------- actions
\* lines 1367-1397 with a payload: the head of the queue goes to the buffer
Fill ==
    /\ UNCHANGED <<request_vars, endpoint_vars, read_vars, handler_vars, context_vars>>
    /\ LoopRuns /\ ~FlushDue
    /\ LET x == Head(objects)
           o == x.obj
       IN /\ ~isinstance_RestModel(x) \/ TRUE \in MayYield(o)
          /\ buffer_list' = Append(buffer_list,
                                   [obj |-> o, built |-> (cfg.op = "send")])
          /\ objects' = Tail(objects)
          /\ hist' = IF x.built \/ cfg.op = "delete" THEN hist
                     ELSE [hist EXCEPT ![o].yields = "yes"]
          /\ exported' = IF isinstance_RestModel(x) THEN o ELSE 0
    /\ UNCHANGED <<cfg, send_limit, rs, pc, err, numRequests, lastReq, txCount, numMarks, gens>>

\* lines 1369-1379: the export yields nothing, the object is skipped
Skip ==
    /\ UNCHANGED <<request_vars, endpoint_vars, read_vars, handler_vars, context_vars>>
    /\ LoopRuns /\ ~FlushDue
    /\ LET x == Head(objects)
           o == x.obj
       IN /\ isinstance_RestModel(x) /\ FALSE \in MayYield(o)
          /\ objects' = Tail(objects)
          /\ exported' = o
          /\ rs' = [rs EXCEPT ![o].did_send = FALSE]
          /\ hist' = [hist EXCEPT ![o].yields = "no"]
    /\ UNCHANGED <<cfg, buffer_list, send_limit, pc, err, numRequests, lastReq, txCount, numMarks, gens>>

\* the directives the error handlers may leave: anything, within the
\* budget cfg.marks, when the response is an error that does not raise;
\* nothing otherwise
Marks(dirs) == Cardinality({i \in DOMAIN dirs : dirs[i] # NoRetry})

HandlerChoices(n, resp, http_method) ==
    IF cfg.op = "send" /\ resp.status >= 300
       /\ ~status_raises(cfg.status_map, http_method, resp.status)
    THEN {d \in [1..n -> Directives] : numMarks + Marks(d) <= cfg.marks}
    ELSE {[i \in 1..n |-> NoRetry]}

Responses(n) ==
    IF cfg.responses = "wide" THEN WideResponses(n) ELSE BasicResponses(n)

\* a feed-back loop that walks the transmitted items first to last
in_sending_order(items) == items

\* line 1313: reversed(buffer_items_to_send)
reversed(items) == Reverse(items)

\* lines 1272-1350: the generator gave a URL; the selected objects are
\* sent in one request, reconciled, and fed back for retry
FlushSend ==
    /\ UNCHANGED <<request_vars, endpoint_vars, read_vars, handler_vars, context_vars>>
    /\ exported' = 0
    /\ LoopRuns /\ FlushDue
    /\ \E gen \in {url_generator(ObjsOf(buffer_list))} :
          /\ gen.kind = "url"
          /\ LET to_send == buffer_items_to_send(buffer_list, gen.models)
                 to_keep == buffer_items_to_keep(buffer_list, gen.models)
                 request_objs == ObjsOf(to_send)
                 n == Len(request_objs)
             IN IF cfg.op = "send" /\ gen.url.singular /\ n # 1
                THEN /\ pc' = "raised"
                     /\ err' = [kind |-> "AssertionError", where |-> "singular",
                                names |-> request_objs]
                     /\ UNCHANGED <<objects, buffer_list, rs, numRequests,
                                    lastReq, txCount, numMarks, gens, hist>>
                ELSE \E resp \in Responses(n) :
                     \E dirs \in HandlerChoices(n, resp, gen.url.method) :
                     \* res: what request_generator leaves; fb: the retry loop
                     \E res \in {IF cfg.op = "send"
                                  THEN _send_objs_to_url(rs, gen.url, request_objs,
                                                         resp, dirs, cfg.status_map)
                                  ELSE do_delete_request(rs, gen.url, request_objs, resp)} :
                     \E fb \in {retry_feedback(reversed(to_send), objects, res.rs)} :
                       LET sent == Range(request_objs)
                       IN /\ numRequests' = numRequests + 1
                          /\ gens' = gens \cup {IF Len(to_keep) = 0 THEN "whole"
                                                ELSE "subset"}
                          /\ txCount' = [o \in DOMAIN txCount |->
                                           IF o \in sent THEN txCount[o] + 1
                                           ELSE txCount[o]]
                          /\ lastReq' = [objs |-> request_objs,
                                         selected |-> gen.models,
                                         keep |-> ObjsOf(to_keep),
                                         url |-> gen.url,
                                         status |-> resp.status,
                                         text |-> resp.text,
                                         resp_list_len |->
                                             IF resp.body = "list"
                                             THEN resp.len ELSE 0,
                                         after |-> [i \in 1..n |-> res.rs[request_objs[i]]],
                                         raised |-> res.raised,
                                         merged |-> res.merged,
                                         pending |-> Len(fb.objects),
                                         limit |-> send_limit]
                          /\ hist' = [o \in DOMAIN hist |->
                                IF o \notin sent THEN hist[o]
                                ELSE [hist[o] EXCEPT
                                        !.lastErr = res.rs[o].had_error,
                                        !.ever = @ \/ res.rs[o].should_retry_send # NoRetry,
                                        !.always = @ /\ res.rs[o].should_retry_send # NoRetry]]
                          /\ numMarks' = numMarks + Marks(dirs)
                          /\ IF res.raised # "no"
                             THEN /\ pc' = "raised"
                                  /\ err' = [kind |-> res.raised, where |-> "response",
                                             names |-> request_objs]
                                  /\ rs' = res.rs
                                  /\ UNCHANGED <<objects, buffer_list>>
                             ELSE /\ rs' = fb.rs
                                  /\ objects' = fb.objects
                                  /\ buffer_list' = to_keep
                                  /\ UNCHANGED <<pc, err>>
    /\ UNCHANGED <<cfg, send_limit>>

\* the exception that ends the call when _wrap_request lets a transport
\* exception of `requests` through: _send_objs_to_url turns it into
\* XynRestError, do_delete_request has no handler around _wrap_request
transport_error_seen_by(op) ==
    IF op = "send" THEN "XynRestError" ELSE "RequestException"

\* lines 1272-1307 with a request that gets no response: the exception
\* leaves request_generator before any response state is touched
FlushTransportError ==
    /\ UNCHANGED <<request_vars, endpoint_vars, read_vars, handler_vars, context_vars>>
    /\ exported' = 0
    /\ LoopRuns /\ FlushDue
    /\ \E gen \in {url_generator(ObjsOf(buffer_list))} :
          /\ gen.kind = "url"
          /\ LET to_send == buffer_items_to_send(buffer_list, gen.models)
                 to_keep == buffer_items_to_keep(buffer_list, gen.models)
                 request_objs == ObjsOf(to_send)
                 n == Len(request_objs)
             IN /\ ~(cfg.op = "send" /\ gen.url.singular /\ n # 1)
                /\ numRequests' = numRequests + 1
                /\ gens' = gens \cup {IF Len(to_keep) = 0 THEN "whole"
                                      ELSE "subset"}
                /\ txCount' = [o \in DOMAIN txCount |->
                                 IF o \in Range(request_objs) THEN txCount[o] + 1
                                 ELSE txCount[o]]
                /\ lastReq' = [objs |-> request_objs,
                               selected |-> gen.models,
                               keep |-> ObjsOf(to_keep),
                               url |-> gen.url,
                               status |-> 0,
                               text |-> "",
                               resp_list_len |-> 0,
                               after |-> [i \in 1..n |-> rs[request_objs[i]]],
                               raised |-> transport_error_seen_by(cfg.op),
                               merged |-> {},
                               pending |-> Len(objects),
                               limit |-> send_limit]
                /\ pc' = "raised"
                /\ err' = [kind |-> transport_error_seen_by(cfg.op),
                           where |-> "transport", names |-> request_objs]
    /\ UNCHANGED <<cfg, objects, buffer_list, send_limit, rs, numMarks, hist>>

\* a fallback that keeps the batch size
send_limit_after_fallback_kept(limit) == limit

\* line 1364: send_limit = 1
send_limit_after_fallback(limit) == 1

\* lines 1352-1365: no URL for the buffer as a whole; its items go back to
\* the front of the queue (deque.extendleft) and the batch size becomes 1
FallbackSingular ==
    /\ UNCHANGED <<request_vars, endpoint_vars, read_vars, handler_vars, context_vars>>
    /\ exported' = 0
    /\ LoopRuns /\ FlushDue
    /\ url_generator(ObjsOf(buffer_list)).kind = "singular"
    /\ gens' = gens \cup {"singular"}
    /\ IF Len(buffer_list) > 1
       THEN /\ objects' = Reverse(buffer_list) \o objects
            /\ buffer_list' = <<>>
            /\ send_limit' = send_limit_after_fallback(send_limit)
            /\ UNCHANGED <<pc, err>>
       ELSE /\ pc' = "raised"
            /\ err' = [kind |-> "AssertionError", where |-> "fallback",
                       names |-> ObjsOf(buffer_list)]
            /\ UNCHANGED <<objects, buffer_list, send_limit>>
    /\ UNCHANGED <<cfg, rs, numRequests, lastReq, txCount, numMarks, hist>>

\* url_for_endpoint(raise_if_none=True) found nothing: XynRestError
ResolveRaise ==
    /\ UNCHANGED <<request_vars, endpoint_vars, read_vars, handler_vars, context_vars>>
    /\ exported' = 0
    /\ LoopRuns /\ FlushDue
    /\ LET gen == url_generator(ObjsOf(buffer_list))
       IN /\ gen.kind = "raise"
          /\ pc' = "raised"
          /\ err' = [kind |-> "XynRestError", where |-> "resolve",
                     names |-> gen.names]
          /\ gens' = gens \cup {"raise"}
    /\ UNCHANGED <<cfg, objects, buffer_list, send_limit, rs, numRequests,
                   lastReq, txCount, numMarks, hist>>

\* a send_objs that calls did_send() on the transmitted objects only
call_did_send_on_sent(h) ==
    [o \in DOMAIN h |->
        IF txCount[o] > 0 THEN [h[o] EXCEPT !.hooks = @ + 1] ELSE h[o]]

\* send_objs, lines 484-487: for obj in starting_objects: obj.api.did_send()
call_did_send(h) == [o \in DOMAIN h |-> [h[o] EXCEPT !.hooks = @ + 1]]

\* the loop ends; send_objs then calls did_send() on every starting object
Return ==
    /\ UNCHANGED <<request_vars, endpoint_vars, read_vars, handler_vars, context_vars>>
    /\ exported' = 0
    /\ pc = "run" /\ Len(objects) = 0 /\ Len(buffer_list) = 0
    /\ pc' = "done"
    /\ hist' = IF cfg.op = "send" THEN call_did_send(hist) ELSE hist
    /\ UNCHANGED <<cfg, objects, buffer_list, send_limit, rs, err, numRequests,
                   lastReq, txCount, numMarks, gens>>

Next ==
    \/ Fill
    \/ Skip
    \/ FlushSend
    \/ FlushTransportError
    \/ FallbackSingular
    \/ ResolveRaise
    \/ Return

Spec == Init /\ [][Next]_vars

\* a send or a delete at the largest batch size whose error handlers are
\* free to ask for a retry every time
InitEnds ==
    /\ cfg \in [op : {"send", "delete"},
                n : 0..MaxRetryObjs,
                hasId : [1..MaxObjs -> BOOLEAN],
                model_urls : {DefaultModelURLs, CreateOnlyURLs},
                url : {"None"},
                status_map : {"None"},
                send_limit : {MaxSendLimit},
                responses : {"basic"},
                marks : {MaxRetryObjs * (RetryCeiling + 1)}]
    /\ Start

\* the loop of _do_http_method_on_objs runs on one thread and every
\* request returns or fails: a step that can be taken is taken
SpecEnds == InitEnds /\ [][Next]_vars /\ WF_vars(Next)

\* the url argument of send_objs and delete_objs: none, or a path without
\* placeholders to append to the candidate
UrlChoices == {"None", "extra"}

\* a send or a delete given a url to append, or none
InitUrl ==
    /\ cfg \in [op : {"send", "delete"},
                n : 0..MaxRetryObjs,
                hasId : [1..MaxObjs -> BOOLEAN],
                model_urls : ModelUrlChoices,
                url : UrlChoices,
                status_map : {"None"},
                send_limit : 1..MaxSendLimit,
                responses : {"basic"},
                marks : {MaxMarks}]
    /\ Start

SpecUrl == InitUrl /\ [][Next]_vars

SpecRetry == InitRetry /\ [][Next]_vars

SpecStatus == InitStatus /\ [][Next]_vars

\* ------------------------------------------------- the request executor
\* what handler() raises when the transport fails: the exceptions of
\* `requests` (ConnectTimeout and ReadTimeout are Timeouts) and the builtin
\* ConnectionResetError, all caught at line 1680
TransportErrors ==
    {"ConnectionError", "ConnectTimeout", "ReadTimeout", "ConnectionResetError"}

\* isinstance(e, requests.exceptions.RequestException): the builtin
\* ConnectionResetError is an OSError, not a RequestException
is_request_exception(e) == e \in {"ConnectionError", "ConnectTimeout", "ReadTimeout"}

\* JSON bodies of a 2xx response: a list, a dict holding the
\* multiple_results_json_path key, a dict without it, a number, text that
\* is not JSON, no text at all
Bodies == {"list", "dict_multi", "dict", "number", "bad", "empty"}

Statuses == {200, 401, 404, 500, 502, 503, 504}

\* the responses handler() may return
HandlerResponses ==
    {[status |-> 200, body |-> b] : b \in Bodies}
    \cup {[status |-> st, body |-> "err"] : st \in Statuses \ {200}}

\* api.settings.retry_requests
RetrySettings == {"Default", "True", "False"}

\* an executor that retries whatever the setting
retry_requests_always(setting) == TRUE

\* lines 1672-1676: Default means True
retry_requests(setting) == setting # "False"

\* creating_objects as the caller passes it: _send_objs_to_url looks for an
\* object without id, delete and read pass False
creating_objects_never(caller, ids) == FALSE

creating_objects(caller, ids) ==
    caller = "send" /\ \E i \in 1..Len(ids) : ~ids[i]

\* Session.requests_session: the current session, created when there is none
requests_session(s) ==
    IF s.current = 0
    THEN [created |-> s.created + 1, current |-> s.created + 1]
    ELSE s

\* a reset that keeps the session
Session_reset_keeping(s) == s

\* Session.reset
Session_reset(s) == [s EXCEPT !.current = 0]

\* entries of wlog: a handler() call on a session with what it raised or
\* the status it returned, a Session reset, a token refresh
CallRaised(id, e) == [ev |-> "call", session |-> id, exc |-> e, status |-> 0]
CallReturned(id, r) == [ev |-> "call", session |-> id, exc |-> NoExc, status |-> r.status]
ResetEv == [ev |-> "reset", session |-> 0, exc |-> NoExc, status |-> 0]
RefreshEv == [ev |-> "refresh", session |-> 0, exc |-> NoExc, status |-> 0]

\* a retry set without the care for creates
status_codes_to_retry_all(creating) == {500, 502, 503, 504}

\* status_codes_to_retry (lines 1721-1723)
status_codes_to_retry(creating) ==
    {500, 502, 503} \cup (IF ~creating THEN {504} ELSE {})

\* a token stage that never refreshes
needs_refresh_never(status) == FALSE

\* line 1707
needs_refresh(status) == status \in {401}

WCreating == creating_objects(wcfg.caller, wcfg.ids)

WRetry == retry_requests(wcfg.retry_requests)

\* one request of send_objs (its objects with or without id), delete_objs
\* or a read, on a Session that holds a session or none yet
InitRequest ==
    /\ PlannerIdle /\ EndpointIdle /\ ReadIdle /\ HandlersIdle /\ ContextsIdle
    /\ wcfg \in [caller : {"send", "delete", "read"},
                 retry_requests : RetrySettings,
                 ids : {<<TRUE>>, <<FALSE>>, <<TRUE, FALSE>>},
                 singular : BOOLEAN]
    /\ wcfg.caller # "send" => wcfg.ids = <<TRUE>>
    /\ wpc = "try"
    /\ session \in {[created |-> 0, current |-> 0], [created |-> 1, current |-> 1]}
    /\ response = NoResponse
    /\ exc = NoExc
    /\ wlog = <<>>

\* handler(): the request goes out on the current session, after the
\* events in `before`
Handler(before, after_ok, after_exc) ==
    /\ session' = requests_session(session)
    /\ \/ \E e \in TransportErrors :
            /\ wlog' = wlog \o before \o <<CallRaised(session'.current, e)>>
            /\ exc' = e /\ wpc' = after_exc /\ UNCHANGED response
       \/ \E r \in HandlerResponses :
            /\ wlog' = wlog \o before \o <<CallReturned(session'.current, r)>>
            /\ response' = r /\ wpc' = after_ok /\ UNCHANGED exc

\* lines 1678-1679: the first attempt
FirstAttempt ==
    /\ wpc = "try"
    /\ Handler(<<>>, "token", "except")
    /\ UNCHANGED <<wcfg, planner_vars, endpoint_vars, read_vars, handler_vars, context_vars>>

\* lines 1680-1700: the first attempt failed at the transport
TransportFailure ==
    /\ wpc = "except"
    /\ IF ~WRetry
       THEN wpc' = "raised" /\ UNCHANGED <<session, wlog>>
       ELSE /\ session' = Session_reset(session)
            /\ wlog' = Append(wlog, ResetEv)
            /\ wpc' = IF WCreating /\ exc = "ReadTimeout" THEN "raised" ELSE "again"
    /\ UNCHANGED <<wcfg, response, exc, planner_vars, endpoint_vars, read_vars, handler_vars, context_vars>>

\* lines 1702-1703: the second attempt, outside the try
SecondAttempt ==
    /\ wpc = "again"
    /\ Handler(<<>>, "token", "raised")
    /\ UNCHANGED <<wcfg, planner_vars, endpoint_vars, read_vars, handler_vars, context_vars>>

\* lines 1705-1716: a 401 gets a token refresh and one retry
TokenStage ==
    /\ wpc = "token"
    /\ IF needs_refresh(response.status)
       THEN Handler(<<RefreshEv>>, "status", "raised")
       ELSE wpc' = "status" /\ UNCHANGED <<session, wlog, response, exc>>
    /\ UNCHANGED <<wcfg, planner_vars, endpoint_vars, read_vars, handler_vars, context_vars>>

\* lines 1718-1737: with retries, a transient status gets one retry
StatusStage ==
    /\ wpc = "status"
    /\ IF WRetry /\ response.status \in status_codes_to_retry(WCreating)
       THEN Handler(<<>>, "returned", "raised")
       ELSE wpc' = "returned" /\ UNCHANGED <<session, wlog, response, exc>>
    /\ UNCHANGED <<wcfg, planner_vars, endpoint_vars, read_vars, handler_vars, context_vars>>

\* the write path after _wrap_request returned (lines 1490-1551): what
\* _send_objs_to_url raises for the response, "no" when it raises nothing
send_response_raises(r, singular) ==
    IF r.status < 300 /\ r.body = "bad" THEN "ValueError"
    ELSE IF r.status >= 300
    THEN IF status_raises("None", HTTPPatch, r.status) THEN "XynRestError" ELSE "no"
    ELSE IF ~singular /\ r.body \in {"dict", "number"} THEN "XynRestError"
    ELSE "no"

\* the read path after _wrap_request returned: parse_json_from_get_response
\* (lines 711-749) and the shape check of _get_objects (lines 1074-1098)
read_response_raises(r, singular) ==
    IF r.status = 404 THEN "no"
    ELSE IF r.status >= 400 THEN "XynRestError"
    ELSE IF r.body \in {"bad", "empty"} THEN "XynRestError"
    ELSE IF singular \/ r.body \in {"list", "dict_multi"} THEN "no"
    ELSE IF r.body = "dict" THEN "XynRestError"
    ELSE "TypeError"

\* what the caller of _wrap_request lets out for exception e of the
\* request: _send_objs_to_url and _get_objects wrap a RequestException in
\* XynRestError, do_delete_request has no handler
caller_sees(caller, e) ==
    IF caller \in {"send", "read"} /\ is_request_exception(e)
    THEN "XynRestError"
    ELSE e

\* the exception of _wrap_request reaches the caller's handler, if any
CallerExcept ==
    /\ wpc = "raised"
    /\ wpc' = "caller_raised"
    /\ exc' = caller_sees(wcfg.caller, exc)
    /\ UNCHANGED <<wcfg, session, response, wlog, planner_vars, endpoint_vars, read_vars, handler_vars, context_vars>>

\* the caller works on the response _wrap_request returned
CallerResponse ==
    /\ wpc = "returned"
    /\ LET raises == IF wcfg.caller = "send"
                     THEN send_response_raises(response, wcfg.singular)
                     ELSE IF wcfg.caller = "read"
                     THEN read_response_raises(response, wcfg.singular)
                     ELSE "no"
       IN /\ exc' = IF raises = "no" THEN NoExc ELSE raises
          /\ wpc' = IF raises = "no" THEN "caller_ok" ELSE "caller_raised"
    /\ UNCHANGED <<wcfg, session, response, wlog, planner_vars, endpoint_vars, read_vars, handler_vars, context_vars>>

NextRequest ==
    \/ FirstAttempt
    \/ TransportFailure
    \/ SecondAttempt
    \/ TokenStage
    \/ StatusStage
    \/ CallerExcept
    \/ CallerResponse

SpecRequest == InitRequest /\ [][NextRequest]_vars

\* ------------------------------------------------ the endpoint resolver
\* all finite sequences over S of length 0..n
SeqsUpTo(S, n) == UNION {[1..k -> S] : k \in 0..n}

\* api_url.query_value('id'): absent, one scalar, or a list of n values
IdValues ==
    {[kind |-> "none", n |-> 0], [kind |-> "scalar", n |-> 1]}
    \cup {[kind |-> "list", n |-> k] : k \in 0..MaxIds}

\* an order with plural first also when there is no id value
default_singular_values_plural(id_value) ==
    IF id_value.n = 1 THEN <<"True", "None">> ELSE <<"False", "None">>

\* lines 2154-2171: the order used when singular_values is None
default_singular_values(id_value) ==
    IF id_value.kind = "none" \/ id_value.n = 0
    THEN <<"None">>
    ELSE IF id_value.kind = "list"
    THEN <<(IF id_value.n = 1 THEN "True" ELSE "False"), "None">>
    ELSE <<"True", "None">>

\* a cache that outlives the call
kept_candidate_cache(prev) == prev

\* line 2173: every call starts with an empty all_candidate_urls_cache
new_candidate_cache(prev) == <<>>

\* all_urls(): the cached copies when there are any, else a copy of every
\* declared candidate (base_url.copy().append_url(ep_url).append_url(url))
all_urls(cache, model_urls) ==
    IF cache # <<>> THEN cache ELSE model_urls

\* is_valid(..., attach_values=True) on the candidate that is returned:
\* the id it was checked with fills the placeholder of that copy
attach_values(cand) ==
    IF cand.path = "{id}" THEN [cand EXCEPT !.path = "<id>"] ELSE cand

\* the cache after the loops: the returned copy carries its attached
\* values and the one method it was reached under
cache_after(cands, methods, order, result) ==
    IF methods = <<>> \/ order = <<>> THEN <<>>
    ELSE IF result.kind = "url"
    THEN [cands EXCEPT ![result.idx] =
              [attach_values(@) EXCEPT !.methods = {result.method}]]
    ELSE cands

\* the two objects a call may pass as secondary values: 1 has an id, 2 none
EHasId == <<TRUE, FALSE>>

EMethods == {HTTPGet, HTTPPost, HTTPPut}

Prefs == {"True", "False", "None"}

\* the arguments of one call; given = FALSE stands for singular_values=None
MkArgs(methods, given, singular_values, secondary_values, raise_if_none) ==
    [methods |-> methods, given |-> given, singular_values |-> singular_values,
     secondary_values |-> secondary_values, raise_if_none |-> raise_if_none]

WideArgs ==
    {MkArgs(m, g, sv, sec, r) :
        m \in SeqsUpTo(EMethods, MaxMethods),
        g \in {TRUE}, sv \in SeqsUpTo(Prefs, MaxPrefs),
        sec \in {<<>>, <<1>>, <<2>>}, r \in BOOLEAN}
    \cup
    {MkArgs(m, FALSE, <<>>, sec, r) :
        m \in SeqsUpTo(EMethods, MaxMethods),
        sec \in {<<>>, <<1>>, <<2>>}, r \in BOOLEAN}

NarrowArgs ==
    {MkArgs(m, FALSE, <<>>, sec, FALSE) :
        m \in {<<HTTPGet>>, <<HTTPPatch>>, <<HTTPPut, HTTPPost>>},
        sec \in {<<1>>, <<2>>}}

ArgsPool == IF ecfg.pool = "wide" THEN WideArgs ELSE NarrowArgs

\* one url_for_endpoint call with any arguments
InitEndpoint ==
    /\ PlannerIdle /\ RequestIdle /\ ReadIdle /\ HandlersIdle /\ ContextsIdle
    /\ ecfg \in [model_urls : ModelUrlChoices, id_value : IdValues,
                 calls : {1}, pool : {"wide"}]
    /\ all_candidate_urls_cache = <<>>
    /\ seen = {}
    /\ ncalls = 0
    /\ last_call = NoCall

\* up to MaxCalls url_for_endpoint calls on the same model
InitRepeat ==
    /\ PlannerIdle /\ RequestIdle /\ ReadIdle /\ HandlersIdle /\ ContextsIdle
    /\ ecfg \in [model_urls : ModelUrlChoices, id_value : IdValues,
                 calls : {MaxCalls}, pool : {"narrow"}]
    /\ all_candidate_urls_cache = <<>>
    /\ seen = {}
    /\ ncalls = 0
    /\ last_call = NoCall

\* RestClient.url_for_endpoint, lines 2154-2212
CallEndpoint ==
    /\ ncalls < ecfg.calls
    /\ \E args \in ArgsPool :
       \E order \in {IF args.given THEN args.singular_values
                     ELSE default_singular_values(ecfg.id_value)} :
       \E cands \in {all_urls(new_candidate_cache(all_candidate_urls_cache),
                              ecfg.model_urls)} :
       \E result \in {url_for_endpoint(cands, args.methods, "None", order,
                                       args.secondary_values,
                                       args.raise_if_none, EHasId)} :
          /\ all_candidate_urls_cache' =
                 cache_after(cands, args.methods, order, result)
          /\ seen' = seen \cup {<<args, result>>}
          /\ last_call' = [made |-> TRUE,
                           methods |-> args.methods,
                           given |-> args.given,
                           singular_values |-> args.singular_values,
                           secondary_values |-> args.secondary_values,
                           raise_if_none |-> args.raise_if_none,
                           order |-> order,
                           result |-> result]
    /\ ncalls' = ncalls + 1
    /\ UNCHANGED <<ecfg, planner_vars, request_vars, read_vars, handler_vars, context_vars>>

NextEndpoint == CallEndpoint

SpecEndpoint == InitEndpoint /\ [][NextEndpoint]_vars

SpecRepeat == InitRepeat /\ [][NextEndpoint]_vars

\* ------------------------------------------------------------ read path
\* bounds of the reads followed: pages the server holds, elements of one
\* page, the largest top
MaxPages == 2
MaxPerPage == 2
MaxTop == 3

\* what _wrap_request hands to _get_objects for one page. status 0: the
\* request let out the exception named by body. Otherwise body is the
\* response text: "envelope" a dict holding the multiple_results_json_path
\* key with a list of n elements, "envelope_null" the same key holding
\* null, "list" a list of n elements, "dict" a dict without the key,
\* "number" a JSON number, "null" the JSON null, "bad" text that is not
\* JSON. next: the dict holds a `next` URL, that of the following page
OkPages ==
    {[status |-> 200, body |-> "envelope", n |-> n, next |-> x] :
        n \in 0..MaxPerPage, x \in BOOLEAN}
    \cup {[status |-> 200, body |-> "list", n |-> n, next |-> FALSE] :
            n \in 0..MaxPerPage}
    \cup {[status |-> 200, body |-> b, n |-> 0, next |-> FALSE] :
            b \in {"envelope_null", "dict", "number", "null", "bad"}}

ErrorPages ==
    {[status |-> 404, body |-> "dict", n |-> 0, next |-> FALSE]}
    \cup {[status |-> st, body |-> b, n |-> 0, next |-> FALSE] :
            st \in {401, 403}, b \in {"dict", "list", "bad"}}
    \cup {[status |-> st, body |-> "dict", n |-> 0, next |-> FALSE] :
            st \in {400, 500}}
    \cup {[status |-> 0, body |-> e, n |-> 0, next |-> FALSE] :
            e \in {"ConnectionError", "ConnectionResetError"}}

ReadPages == OkPages \cup ErrorPages

\* parse_json_from_get_response: "None", "json" for a parsed body, or the
\* exception it lets out. For 401 and 403 it reads
\* response.json().get('detail') and catches ValueError only
parse_json_from_get_response(page) ==
    IF page.status = 404 THEN "None"
    ELSE IF page.status \in {401, 403}
    THEN IF page.body \in {"list", "number", "null"}
         THEN "AttributeError" ELSE "XynRestError"
    ELSE IF page.status >= 400 THEN "XynRestError"
    ELSE IF page.body = "bad" THEN "XynRestError"
    ELSE IF page.body = "null" THEN "None"
    ELSE "json"

\* lines 1080-1102: how results_list comes out of the parsed body: "objs",
\* "break", or the exception raised
results_list(page, singular) ==
    IF singular THEN "objs"
    ELSE IF page.body = "list" THEN "objs"
    ELSE IF page.body = "envelope" THEN "objs"
    ELSE IF page.body = "envelope_null" THEN "break"
    ELSE IF page.body = "number" THEN "TypeError"
    ELSE "XynRestError"

\* len(objs): one object per element of results_list
len_objs(page, singular) == IF singular THEN 1 ELSE page.n

\* a limit that is tested before the object is counted
top_reached_late(top, count) == top # NoTop /\ count > top

\* line 1128
top_reached(top, count) == top # NoTop /\ count >= top

\* url_for_next_page, json_response.get('next', None): the page that
\* follows page k, 0 for None, "AttributeError" on a list
url_for_next_page(page, k) ==
    IF page.body = "list" THEN 0 - 1
    ELSE IF page.next THEN k + 1 ELSE 0

NextPageRaises == 0 - 1

\* entries of glog
RequestEv(k) == [ev |-> "request", page |-> k, elem |-> 0]
YieldEv(k, i) == [ev |-> "yield", page |-> k, elem |-> i]

\* pages reached one from the other: a page that is not the last may hold
\* a next URL, the last holds none
PageSeqs ==
    {ps \in UNION {[1..l -> ReadPages] : l \in 1..MaxPages} :
        ~ps[Len(ps)].next}

Tops == {NoTop} \cup (0..MaxTop)

\* get_url: url_for_read, then the generator of _get_objects, not yet
\* started
InitRead ==
    /\ PlannerIdle /\ RequestIdle /\ EndpointIdle /\ HandlersIdle /\ ContextsIdle
    /\ gcfg \in [pages : PageSeqs, top : Tops, singular : BOOLEAN]
    /\ gcfg.singular => Len(gcfg.pages) = 1
    /\ gpc = "request"
    /\ current_url_str = 1
    /\ results_pos = 0
    /\ object_count = 0
    /\ glog = <<>>
    /\ gexc = NoExc

CurrentPage == gcfg.pages[current_url_str]

\* lines 1044-1109: the request of the current page, its parsing, the
\* objects built from it
ReadRequest ==
    /\ gpc = "request"
    /\ glog' = Append(glog, RequestEv(current_url_str))
    /\ \E page \in {CurrentPage} :
       \E json \in {IF page.status = 0 THEN caller_sees("read", page.body)
                    ELSE parse_json_from_get_response(page)} :
       \E res \in {IF json = "json" THEN results_list(page, gcfg.singular)
                   ELSE json} :
          /\ gpc' = CASE res = "objs" -> "loop"
                      [] res \in {"None", "break"} -> "ended"
                      [] OTHER -> "raised"
          /\ gexc' = IF res \in {"objs", "None", "break"} THEN NoExc ELSE res
          /\ results_pos' = IF res = "objs" THEN 1 ELSE results_pos
    /\ UNCHANGED <<gcfg, current_url_str, object_count>>
    /\ UNCHANGED <<planner_vars, request_vars, endpoint_vars, handler_vars, context_vars>>

\* lines 1125-1127: the next object is counted and yielded
Yield ==
    /\ gpc = "loop"
    /\ results_pos <= len_objs(CurrentPage, gcfg.singular)
    /\ object_count' = object_count + 1
    /\ glog' = Append(glog, YieldEv(current_url_str, results_pos))
    /\ gpc' = "yielded"
    /\ UNCHANGED <<gcfg, current_url_str, results_pos, gexc>>
    /\ UNCHANGED <<planner_vars, request_vars, endpoint_vars, handler_vars, context_vars>>

\* lines 1128-1129: the consumer asks for more, the generator tests top
Resume ==
    /\ gpc = "yielded"
    /\ IF top_reached(gcfg.top, object_count)
       THEN gpc' = "ended" /\ UNCHANGED results_pos
       ELSE gpc' = "loop" /\ results_pos' = results_pos + 1
    /\ UNCHANGED <<gcfg, current_url_str, object_count, glog, gexc>>
    /\ UNCHANGED <<planner_vars, request_vars, endpoint_vars, handler_vars, context_vars>>

\* lines 1131-1140 and the while test: past the last object of the page
NextPage ==
    /\ gpc = "loop"
    /\ results_pos > len_objs(CurrentPage, gcfg.singular)
    /\ IF gcfg.singular
       THEN gpc' = "ended" /\ UNCHANGED <<current_url_str, gexc>>
       ELSE \E nxt \in {url_for_next_page(CurrentPage, current_url_str)} :
              IF nxt = NextPageRaises
              THEN /\ gpc' = "raised" /\ gexc' = "AttributeError"
                   /\ UNCHANGED current_url_str
              ELSE /\ current_url_str' = nxt
                   /\ gpc' = IF nxt = 0 THEN "ended" ELSE "request"
                   /\ UNCHANGED gexc
    /\ UNCHANGED <<gcfg, results_pos, object_count, glog>>
    /\ UNCHANGED <<planner_vars, request_vars, endpoint_vars, handler_vars, context_vars>>

NextRead ==
    \/ ReadRequest
    \/ Yield
    \/ Resume
    \/ NextPage

SpecRead == InitRead /\ [][NextRead]_vars

\* ----------------------------------------------------- error handlers
\* bounds: objects of the request, resource-wide error handlers
MaxHandlerObjs == 2
MaxWideHandlers == 2

\* the object-local handler, http.error_handler
LocalHandler == 0

\* obj.api.option_all_for_name('error_handler'): the resource-wide
\* handlers 1..wide in configured order
option_all_for_name(wide) == [k \in 1..wide |-> k]

\* a chain with the object-local handler last
error_handlers_local_last(local, wide) ==
    option_all_for_name(wide) \o (IF local THEN <<LocalHandler>> ELSE <<>>)

\* lines 1606-1610
error_handlers(local, wide) ==
    (IF local THEN <<LocalHandler>> ELSE <<>>) \o option_all_for_name(wide)

\* line 1616: handler(obj, http, url) or should_retry_send
chain_stops(returned, directive) == returned \/ directive # NoRetry

\* a handler call: what it returned, the directive of the object after it
HandlerCall(o, h, returned, directive) ==
    [obj |-> o, handler |-> h, returned |-> returned, directive |-> directive]

\* one request of n objects after parse_errors_from_send_response: any
\* object may have an error, any object may have a handler of its own
InitHandlers ==
    /\ PlannerIdle /\ RequestIdle /\ EndpointIdle /\ ReadIdle /\ ContextsIdle
    /\ \E n \in 1..MaxHandlerObjs :
         hcfg \in [n : {n}, had_error : [1..n -> BOOLEAN],
                   local : [1..n -> BOOLEAN], wide : 0..MaxWideHandlers]
    /\ hpos = 1
    /\ hnext = 1
    /\ should_retry_send = [o \in 1..hcfg.n |-> NoRetry]
    /\ hcalls = <<>>
    /\ handled = {}
    /\ logged = {}

ChainOf(o) == error_handlers(hcfg.local[o], hcfg.wide)

\* lines 1565-1603: an object without error is merged, or left as it is
NoErrorObject ==
    /\ hpos <= hcfg.n
    /\ ~hcfg.had_error[hpos]
    /\ hpos' = hpos + 1
    /\ UNCHANGED <<hcfg, hnext, should_retry_send, hcalls, handled, logged>>
    /\ UNCHANGED <<planner_vars, request_vars, endpoint_vars, read_vars, context_vars>>

\* lines 1615-1624: the next handler of the chain is called; it returns
\* true or false and may set a retry directive on the object
CallHandler ==
    /\ hpos <= hcfg.n
    /\ hcfg.had_error[hpos]
    /\ hnext <= Len(ChainOf(hpos))
    /\ \E returned \in BOOLEAN :
       \E directive \in Directives \cup {should_retry_send[hpos]} :
          /\ should_retry_send' = [should_retry_send EXCEPT ![hpos] = directive]
          /\ hcalls' = Append(hcalls, HandlerCall(hpos, ChainOf(hpos)[hnext],
                                                  returned, directive))
          /\ IF chain_stops(returned, directive)
             THEN /\ handled' = handled \cup {hpos}
                  /\ hpos' = hpos + 1
                  /\ hnext' = 1
             ELSE /\ hnext' = hnext + 1
                  /\ UNCHANGED <<handled, hpos>>
    /\ UNCHANGED <<hcfg, logged>>
    /\ UNCHANGED <<planner_vars, request_vars, endpoint_vars, read_vars, context_vars>>

\* lines 1626-1632: no handler handled the error
Unhandled ==
    /\ hpos <= hcfg.n
    /\ hcfg.had_error[hpos]
    /\ hnext > Len(ChainOf(hpos))
    /\ logged' = IF should_retry_send[hpos] = NoRetry
                 THEN logged \cup {hpos} ELSE logged
    /\ hpos' = hpos + 1
    /\ hnext' = 1
    /\ UNCHANGED <<hcfg, should_retry_send, hcalls, handled>>
    /\ UNCHANGED <<planner_vars, request_vars, endpoint_vars, read_vars, context_vars>>

NextHandlers ==
    \/ NoErrorObject
    \/ CallHandler
    \/ Unhandled

SpecHandlers == InitHandlers /\ [][NextHandlers]_vars

\* --------------------------------------------- sessions of two contexts
\* bound: requests each context makes
MaxOps == 2

\* the two execution contexts
Contexts == {1, 2}

\* a reset that reaches the Session of every context
reset_every_session(sessions, c) ==
    [d \in DOMAIN sessions |-> Session_reset(sessions[d])]

\* line 1694, Session.grab().reset(): the Session resource of the
\* context that runs _wrap_request is reset
reset_grabbed_session(sessions, c) ==
    [sessions EXCEPT ![c] = Session_reset(@)]

\* every context has its own Session resource, with a session or none
\* yet, and is about to make a request
InitContexts ==
    /\ PlannerIdle /\ RequestIdle /\ EndpointIdle /\ ReadIdle /\ HandlersIdle
    /\ csession \in [Contexts -> {[created |-> 0, current |-> 0],
                                  [created |-> 1, current |-> 1]}]
    /\ cretry \in [Contexts -> BOOLEAN]
    /\ cpc = [c \in Contexts |-> "try"]
    /\ cops = [c \in Contexts |-> 0]
    /\ clog = [c \in Contexts |-> <<>>]
    /\ corder = <<>>

\* lines 1678-1679 and 2214-2216: handler() of context c goes out on the
\* session of its Session resource and returns a response
ContextCall(c) ==
    /\ cpc[c] \in {"try", "again"}
    /\ cops[c] < MaxOps
    /\ \E s \in {requests_session(csession[c])} :
          /\ csession' = [csession EXCEPT ![c] = s]
          /\ clog' = [clog EXCEPT ![c] =
                        Append(@, CallReturned(s.current, [status |-> 200]))]
    /\ cpc' = [cpc EXCEPT ![c] = "try"]
    /\ cops' = [cops EXCEPT ![c] = @ + 1]
    /\ corder' = Append(corder, c)
    /\ UNCHANGED cretry
    /\ UNCHANGED <<planner_vars, request_vars, endpoint_vars, read_vars, handler_vars>>

\* lines 1680-1704: handler() of context c raises a transport failure;
\* with retries enabled the Session is reset and the request is made a
\* second time, a failure of the second request is let out
ContextFailure(c) ==
    /\ cpc[c] \in {"try", "again"}
    /\ cops[c] < MaxOps
    /\ \E e \in {"ConnectionError"} :
       \E s \in {requests_session(csession[c])} :
          IF cpc[c] = "try" /\ cretry[c]
          THEN /\ csession' = reset_grabbed_session(
                                  [csession EXCEPT ![c] = s], c)
               /\ clog' = [clog EXCEPT ![c] =
                             @ \o <<CallRaised(s.current, e), ResetEv>>]
               /\ cpc' = [cpc EXCEPT ![c] = "again"]
               /\ UNCHANGED cops
          ELSE /\ csession' = [csession EXCEPT ![c] = s]
               /\ clog' = [clog EXCEPT ![c] = Append(@, CallRaised(s.current, e))]
               /\ cpc' = [cpc EXCEPT ![c] = "try"]
               /\ cops' = [cops EXCEPT ![c] = @ + 1]
    /\ corder' = Append(corder, c)
    /\ UNCHANGED cretry
    /\ UNCHANGED <<planner_vars, request_vars, endpoint_vars, read_vars, handler_vars>>

NextContexts ==
    \/ \E c \in Contexts : ContextCall(c)
    \/ \E c \in Contexts : ContextFailure(c)

SpecContexts == InitContexts /\ [][NextContexts]_vars

\* ------------------------------------------------------------ properties
\* the submitted objects whose latest export yielded nothing
SkippedObjs == {o \in Objs : hist[o].yields = "no"}

\* the call returned and no error handler set a retry directive
ReturnedUnmarked == pc = "done" /\ numMarks = 0

\* C1: in a call that returns normally and in which no object is marked
\* for retry, every object that yields a payload is carried by exactly one
\* request and every object that yields none by no request, whatever the
\* url generator answered (whole buffer, strict subset, use-singular).
C1_ExactlyOnce ==
    ReturnedUnmarked =>
        \A o \in Objs : txCount[o] = (IF o \in SkippedObjs THEN 0 ELSE 1)

\* a returned call of three objects in which the generator selected a
\* strict subset and later asked for singular sends
C1_Witness ==
    /\ ReturnedUnmarked
    /\ cfg.n = 3
    /\ {"subset", "singular"} \subseteq gens
    /\ numRequests = 3
    /\ \A o \in Objs : txCount[o] = 1

\* C2 as stated: after send_objs returns normally, whatever directives
\* the error handlers set, every object was transmitted with no error on
\* its last transmission, or was skipped for lack of payload (did_send
\* false), or has had_error = true; an object whose last transmission had
\* an error never ends with the error cleared.
C2_Original ==
    (cfg.op = "send" /\ pc = "done") =>
        \A o \in Objs :
            /\ \/ txCount[o] >= 1 /\ ~hist[o].lastErr /\ rs[o].did_send
                  /\ ~rs[o].had_error
               \/ o \in SkippedObjs /\ ~rs[o].did_send
               \/ rs[o].had_error
            /\ hist[o].lastErr => rs[o].had_error

\* C2: after send_objs returns normally, whatever directives the error
\* handlers set, every object was transmitted with no error on its last
\* transmission, or was skipped for lack of payload (did_send false), or
\* has had_error = true; an object whose last transmission had an error
\* ends with had_error = true unless it was requeued for retry and its
\* export then yielded no payload, in which case it ends skipped
\* (did_send false) with the error cleared.
C2_FinalStates ==
    (cfg.op = "send" /\ pc = "done") =>
        \A o \in Objs :
            /\ \/ txCount[o] >= 1 /\ ~hist[o].lastErr /\ rs[o].did_send
                  /\ ~rs[o].had_error
               \/ o \in SkippedObjs /\ ~rs[o].did_send
               \/ rs[o].had_error
            /\ hist[o].lastErr =>
                  \/ rs[o].had_error
                  \/ o \in SkippedObjs /\ hist[o].ever /\ ~rs[o].did_send

\* a returned send with one object retried and sent in the end, and one
\* given up on with its error kept
C2_Witness ==
    /\ cfg.op = "send" /\ pc = "done" /\ cfg.n = 2
    /\ \E o \in Objs : txCount[o] > 1 /\ ~hist[o].lastErr /\ ~rs[o].had_error
    /\ \E o \in Objs : txCount[o] > 1 /\ hist[o].lastErr /\ rs[o].had_error

\* C3 as stated: an object marked for retry after every one of its
\* transmissions is retransmitted exactly 4 times after the first
\* transmission and never again.
C3_Original ==
    \A o \in Objs :
        /\ txCount[o] <= RetryCeiling + 1
        /\ (pc = "done" /\ txCount[o] >= 1 /\ hist[o].always) =>
                txCount[o] = RetryCeiling + 1

\* C3: no object is transmitted more than RetryCeiling + 1 (5) times, and
\* an object marked for retry after every one of its transmissions is
\* retransmitted exactly RetryCeiling (4) times provided every export of
\* it yields a payload.
C3_RetryCeiling ==
    \A o \in Objs :
        /\ txCount[o] <= RetryCeiling + 1
        /\ (pc = "done" /\ txCount[o] >= 1 /\ hist[o].always
            /\ o \notin SkippedObjs) =>
                txCount[o] = RetryCeiling + 1

\* a returned send with an object marked every time: five transmissions
C3_Witness ==
    /\ pc = "done"
    /\ \E o \in Objs :
          hist[o].always /\ txCount[o] = RetryCeiling + 1
          /\ rs[o].try_count = RetryCeiling + 1

\* C4 as stated: after the operation, an object the planner gave up on
\* at the ceiling has had_error = true and its should_retry_send directive
\* is no longer set.
C4_Original ==
    pc = "done" =>
        \A o \in Objs :
            (over_ceiling(rs[o]) /\ rs[o].should_retry = "False") =>
                rs[o].had_error /\ rs[o].should_retry_send = NoRetry

\* the generator accepted every buffer offered to it so far
AcceptedAll == gens \subseteq {"whole"}

\* C5 as stated: a send that returns with no retry and a generator that
\* accepts every buffer issues ceil(N / K) requests, N counting every
\* submitted object.
C5_Original ==
    (cfg.op = "send" /\ ReturnedUnmarked /\ AcceptedAll) =>
        numRequests = CeilDiv(cfg.n, cfg.send_limit)

\* C5: a send that returns normally with no retry and a generator that
\* accepts every buffer issues ceil((N - S) / K) requests, S being the
\* number of submitted objects that yield no payload.
C5_RequestCount ==
    (cfg.op = "send" /\ ReturnedUnmarked /\ AcceptedAll) =>
        numRequests = CeilDiv(cfg.n - Cardinality(SkippedObjs), cfg.send_limit)

\* three objects, batch size 2, two of them skipped: one request, not two
C5_Witness ==
    /\ cfg.op = "send" /\ ReturnedUnmarked /\ AcceptedAll
    /\ cfg.n = 3 /\ cfg.send_limit = 2
    /\ Cardinality(SkippedObjs) = 2
    /\ numRequests = 1

\* the submitted positions request i (from 0) is due to carry
PositionsOf(i) ==
    [j \in 1..(Min((i + 1) * cfg.send_limit, cfg.n) - i * cfg.send_limit) |->
        i * cfg.send_limit + j]

\* every object exported so far yielded a payload
AllYield == SkippedObjs = {}

\* C6 as stated: with objects that all yield a payload and a generator
\* that accepts every buffer, request i carries positions i*K up to
\* min((i+1)*K, N) - 1 in order, and the requests together carry the
\* submitted sequence.
C6_Original ==
    /\ (lastReq # NoReq /\ AllYield /\ AcceptedAll) =>
            lastReq.objs = PositionsOf(numRequests - 1)
    /\ (pc = "done" /\ AllYield /\ AcceptedAll) =>
            numRequests = CeilDiv(cfg.n, cfg.send_limit)

\* C6: with objects that all yield a payload, a generator that accepts
\* every buffer and no object marked for retry, request i (from 0) carries
\* positions i*K up to min((i+1)*K, N) - 1 of the submitted sequence in
\* order, and a returned call has issued ceil(N / K) requests, so the
\* requests together carry the submitted sequence.
C6_InOrder ==
    /\ (lastReq # NoReq /\ AllYield /\ AcceptedAll /\ numMarks = 0) =>
            lastReq.objs = PositionsOf(numRequests - 1)
    /\ (pc = "done" /\ AllYield /\ AcceptedAll /\ numMarks = 0) =>
            numRequests = CeilDiv(cfg.n, cfg.send_limit)

\* three objects in batches of two: the second request carries the third
C6_Witness ==
    /\ pc = "done" /\ AllYield /\ AcceptedAll /\ numMarks = 0
    /\ cfg.n = 3 /\ cfg.send_limit = 2
    /\ numRequests = 2
    /\ lastReq.objs = <<3>>

\* the write methods url_for_send looks up for object o
WriteMethodsOf(o) ==
    IF cfg.hasId[o] THEN {HTTPPatch, HTTPPut} ELSE {HTTPPatch, HTTPPost}

\* no declared candidate can carry object o on its own
NoCandidateFor(o) ==
    \A i \in 1..Len(cfg.model_urls) :
        \/ cfg.model_urls[i].methods \cap WriteMethodsOf(o) = {}
        \/ ~is_valid(cfg.model_urls[i], <<o>>, cfg.hasId)

\* the latest request carried all objects of its buffer but one, raised
\* nothing, and the object left behind has no candidate of its own
C7_Case ==
    /\ cfg.op = "send"
    /\ lastReq # NoReq
    /\ lastReq.raised = "no"
    /\ Len(lastReq.keep) = 1
    /\ NoCandidateFor(lastReq.keep[1])

\* the request carried the selection; the object left behind is offered
\* alone; the call ends in XynRestError naming it
C7_Outcome ==
    /\ lastReq.objs = lastReq.selected
    /\ pc # "done"
    /\ (pc = "run" /\ FlushDue /\ buffer_list # <<>>) =>
            ObjsOf(buffer_list) = lastReq.keep
    /\ pc = "raised" =>
            /\ err.kind = "XynRestError"
            /\ err.where = "resolve"
            /\ err.names = lastReq.keep

\* C7 as stated, for a request that raises nothing: all but one selected
\* and the remaining object without a resolvable URL: the selection goes
\* out in one request, the remaining object is offered alone, and the
\* call ends in XynRestError naming it.
C7_Original == C7_Case => C7_Outcome

\* C7: when the generator selects all objects of a buffer but one, the
\* object left behind has no resolvable URL, the request raises nothing
\* and nothing is queued once it has returned (no object pending, none
\* requeued), the selection goes out in one request, the object left
\* behind is then offered alone, and the call ends in XynRestError naming
\* it, raised after that request.
C7_SplitThenRaise == (C7_Case /\ lastReq.pending = 0) => C7_Outcome

\* the call raised on the object left behind, after one request
C7_Witness ==
    /\ C7_Case /\ lastReq.pending = 0
    /\ pc = "raised"
    /\ err.names = lastReq.keep
    /\ numRequests = 1

\* C8 as stated: every write response with status >= 500 raises
\* XynRestError, whatever the raise map.
C8_Original ==
    (cfg.op = "send" /\ lastReq # NoReq /\ lastReq.status >= 500) =>
        lastReq.raised = "XynRestError"

\* C8: a write response with status >= 600 raises XynRestError whatever
\* the raise map; one with status 500..599 raises exactly when the status
\* is in the raise set of the request's method.
C8_RaiseRule ==
    (cfg.op = "send" /\ lastReq # NoReq) =>
        /\ lastReq.status >= 600 => lastReq.raised = "XynRestError"
        /\ lastReq.status \in 500..599 =>
              (lastReq.raised = "XynRestError" <=>
                  lastReq.status \in
                      statuses_to_raise(cfg.status_map, lastReq.url.method))

\* a 600 raised under a raise map that names 404 only
C8_Witness ==
    /\ cfg.op = "send" /\ cfg.status_map = "custom"
    /\ lastReq.url.kind = "url" /\ lastReq.url.method = HTTPPost
    /\ lastReq.status = 600
    /\ pc = "raised" /\ err.kind = "XynRestError"

\* the latest response has a status that raises
RaisingStatus ==
    /\ cfg.op = "send" /\ lastReq # NoReq
    /\ lastReq.status >= 300
    /\ \/ lastReq.status >= 600
       \/ lastReq.status \in statuses_to_raise(cfg.status_map, lastReq.url.method)

\* C9: when a write response has a status that raises, no object of the
\* request is merged with the body, and at the raise every object of the
\* request has had_error = true.
C9_NoMergeOnRaise ==
    RaisingStatus =>
        /\ pc = "raised" /\ err.kind = "XynRestError" /\ err.where = "response"
        /\ lastReq.merged = {}
        /\ \A i \in 1..Len(lastReq.objs) :
              lastReq.after[i].had_error /\ rs[lastReq.objs[i]].had_error

\* a 500 with a list in its body, for a request of two objects
C9_Witness ==
    /\ RaisingStatus /\ pc = "raised"
    /\ lastReq.status = 500 /\ lastReq.text = "[..]"
    /\ Len(lastReq.objs) = 2
    /\ \A o \in Objs : rs[o].had_error

\* the latest response has a status from 300 to 599 outside the raise set
SoftStatus ==
    /\ cfg.op = "send" /\ lastReq # NoReq
    /\ lastReq.status \in 300..599
    /\ lastReq.status \notin statuses_to_raise(cfg.status_map, lastReq.url.method)

\* C10: a write response with a status from 300 to 599 outside the raise
\* set of its method raises nothing: every object of the request gets
\* had_error = true, the status as response_code and the response text as
\* its only error, and the planner carries on.
C10_SoftError ==
    SoftStatus =>
        /\ lastReq.raised = "no"
        /\ ~(pc = "raised" /\ err.where = "response")
        /\ \A i \in 1..Len(lastReq.objs) :
              /\ lastReq.after[i].had_error
              /\ lastReq.after[i].response_code = lastReq.status
              /\ lastReq.after[i].errors = <<lastReq.text>>

\* two batches of one, both answered with a soft error; the call returned
C10_Witness ==
    /\ SoftStatus /\ pc = "done"
    /\ cfg.n = 2 /\ numRequests = 2
    /\ lastReq.status = 599 /\ lastReq.objs = <<2>>
    /\ rs[1].had_error /\ rs[1].response_code = 404
    /\ rs[2].errors = <<"err">>

\* C11: once a send_objs or delete_objs call has ended in a raised error
\* (a raising status, a transport failure that _wrap_request let through,
\* or a URL resolution failure) it stays ended: it issues no further
\* request, no object is carried by a later request, and the queue and the
\* buffer keep the objects they held at the raise.
C11_NoRequestAfterRaise ==
    [][pc = "raised" =>
          /\ pc' = "raised"
          /\ err' = err
          /\ numRequests' = numRequests
          /\ txCount' = txCount
          /\ objects' = objects
          /\ buffer_list' = buffer_list]_vars

\* a call of three objects ended by a transport failure of its first
\* request: the third object is still queued and was never transmitted
C11_Witness ==
    /\ pc = "raised" /\ err.where = "transport"
    /\ cfg.n = 3 /\ numRequests = 1
    /\ Len(buffer_list) = 2 /\ Len(objects) = 1
    /\ txCount[objects[1].obj] = 0

\* ---- the request executor
NumCalls == Cardinality({i \in 1..Len(wlog) : wlog[i].ev = "call"})

NumRefresh == Cardinality({i \in 1..Len(wlog) : wlog[i].ev = "refresh"})

\* the retries are enabled (the setting is True, or left at its default)
RetriesEnabled == wcfg.retry_requests \in {"Default", "True"}

\* the request is a send with at least one object without an id
CreateOperation ==
    wcfg.caller = "send" /\ \E i \in 1..Len(wcfg.ids) : ~wcfg.ids[i]

\* the first attempt failed at the transport
FirstFailed == Len(wlog) >= 1 /\ wlog[1].exc # NoExc

\* ... and it was not a read-timeout of a create operation
RetryableFailure ==
    /\ FirstFailed /\ RetriesEnabled
    /\ ~(CreateOperation /\ wlog[1].exc = "ReadTimeout")

\* C12: with retries enabled, a transport failure of the first attempt
\* (not a read-timeout of a create) resets the session and is followed by
\* one further attempt on a session created after the reset; when that
\* attempt succeeds its response is the result, after 2 transport calls;
\* when it fails the failure propagates and there is no third attempt.
\* With retries disabled the first failure propagates after 1 call.
C12_TransportRetry ==
    /\ (RetryableFailure /\ wpc # "except") =>
          /\ wlog[2] = ResetEv
          /\ wpc # "again" =>
                /\ Len(wlog) >= 3 /\ wlog[3].ev = "call"
                /\ wlog[3].session > wlog[1].session
                /\ wlog[3].exc # NoExc =>
                      /\ Len(wlog) = 3
                      /\ wpc \in {"raised", "caller_raised"}
                      /\ wpc = "raised" => exc = wlog[3].exc
                /\ wlog[3].status = 200 =>
                      /\ NumCalls = 2
                      /\ wpc \notin {"raised"}
                      /\ response.status = 200
    /\ (FirstFailed /\ ~RetriesEnabled) =>
          /\ Len(wlog) = 1
          /\ wpc \in {"except", "raised", "caller_raised"}
          /\ wpc = "raised" => exc = wlog[1].exc

\* a connection error, a reset, a second attempt on session 2 that is
\* answered 200 and returned
C12_Witness ==
    /\ RetryableFailure
    /\ wpc = "returned" /\ response.status = 200
    /\ wlog[1] = CallRaised(1, "ConnectionError")
    /\ wlog[3].session = 2 /\ wlog[3].status = 200
    /\ NumCalls = 2

\* C13: a send request with at least one object without an id whose first
\* attempt fails with a read-timeout is transmitted once in all: the
\* read-timeout propagates and no second attempt is made, with retries
\* enabled or disabled.
C13_CreateReadTimeout ==
    (CreateOperation /\ Len(wlog) >= 1 /\ wlog[1].exc = "ReadTimeout") =>
        /\ NumCalls = 1
        /\ wpc \in {"except", "raised", "caller_raised"}
        /\ wpc = "raised" => exc = "ReadTimeout"

\* a send of an object with id and one without, retries enabled: the
\* read-timeout has propagated after one call and the session reset
C13_Witness ==
    /\ wcfg.caller = "send" /\ wcfg.ids = <<TRUE, FALSE>> /\ RetriesEnabled
    /\ wpc = "raised" /\ exc = "ReadTimeout"
    /\ wlog = <<CallRaised(1, "ReadTimeout"), ResetEv>>

\* position in wlog of the call whose response is in hand after the
\* transport-failure stage
TransportStageCall == IF Len(wlog) >= 1 /\ wlog[1].exc = NoExc THEN 1 ELSE 3

\* that response exists and has status 401
InHand401 ==
    /\ Len(wlog) >= TransportStageCall
    /\ wlog[TransportStageCall].ev = "call"
    /\ wlog[TransportStageCall].exc = NoExc
    /\ wlog[TransportStageCall].status = 401

\* C14: when the response in hand after the transport-failure stage has
\* status 401, the token stage invokes the refresh hook once and then sends
\* the request once more, with retries enabled or disabled, the refresh
\* before the retry; a 401 answer to that retry is returned with no
\* further refresh or retry.  No refresh happens otherwise, and the only
\* call that can follow the retry is the one retry the status stage makes
\* for a transient status when retries are enabled.
C14_TokenRefresh ==
    /\ NumRefresh <= 1
    /\ NumRefresh = 1 => InHand401
    /\ (InHand401 /\ wpc # "token") =>
          LET k == TransportStageCall
          IN /\ NumRefresh = 1
             /\ wlog[k + 1] = RefreshEv
             /\ wlog[k + 2].ev = "call"
             /\ Len(wlog) <= k + 3
             /\ Len(wlog) = k + 3 =>
                   /\ wlog[k + 3].ev = "call"
                   /\ RetriesEnabled
                   /\ wlog[k + 2].status \in {500, 502, 503, 504}
             /\ wlog[k + 2].status = 401 =>
                   /\ Len(wlog) = k + 2
                   /\ wpc \in {"status", "returned", "caller_ok", "caller_raised"}
                   /\ response.status = 401
             /\ wlog[k + 2].exc # NoExc =>
                   /\ Len(wlog) = k + 2
                   /\ wpc \in {"raised", "caller_raised"}

\* retries disabled: a 401, the refresh, a retry answered 401, returned
C14_Witness ==
    /\ ~RetriesEnabled
    /\ wpc = "returned" /\ response.status = 401
    /\ Len(wlog) = 3
    /\ wlog[1].status = 401 /\ wlog[2] = RefreshEv /\ wlog[3].status = 401

\* position in wlog of the call whose response the status stage looks at
StatusStageCall ==
    IF InHand401 THEN TransportStageCall + 2 ELSE TransportStageCall

\* the status stage has looked at a response
PastStatusStage ==
    /\ Len(wlog) >= StatusStageCall
    /\ wlog[StatusStageCall].ev = "call"
    /\ wlog[StatusStageCall].exc = NoExc
    /\ wpc \notin {"token", "status"}

\* C15: with retries enabled, a response with status 500, 502 or 503, or
\* 504 when the operation is not a create, that reaches the status stage
\* is followed by exactly one retry whose response is returned whatever
\* its status; with retries disabled, or for 504 on a create, or for any
\* other status, no retry is made and the response is returned as it is.
\* A read answered 500 once with retries disabled raises XynRestError
\* after exactly 1 request.
C15_StatusRetry ==
    /\ PastStatusStage =>
          LET k == StatusStageCall
              transient == \/ wlog[k].status \in {500, 502, 503}
                           \/ wlog[k].status = 504 /\ ~CreateOperation
          IN IF RetriesEnabled /\ transient
             THEN /\ Len(wlog) = k + 1
                  /\ wlog[k + 1].ev = "call"
                  /\ wlog[k + 1].exc = NoExc =>
                        /\ wpc \in {"returned", "caller_ok", "caller_raised"}
                        /\ response.status = wlog[k + 1].status
                  /\ wlog[k + 1].exc # NoExc =>
                        wpc \in {"raised", "caller_raised"}
             ELSE /\ Len(wlog) = k
                  /\ wpc \in {"returned", "caller_ok", "caller_raised"}
                  /\ response.status = wlog[k].status
    /\ (/\ wcfg.caller = "read" /\ ~RetriesEnabled
        /\ Len(wlog) >= 1 /\ wlog[1].status = 500
        /\ wpc \in {"caller_ok", "caller_raised"}) =>
          /\ wpc = "caller_raised" /\ exc = "XynRestError"
          /\ NumCalls = 1

\* retries enabled: a 503 retried once, the 500 of the retry returned
C15_Witness ==
    /\ RetriesEnabled
    /\ wpc = "returned" /\ response.status = 500
    /\ Len(wlog) = 2
    /\ wlog[1].status = 503 /\ wlog[2].status = 500

\* the latest handler() call
LastCall ==
    wlog[CHOOSE i \in 1..Len(wlog) :
            /\ wlog[i].ev = "call"
            /\ \A j \in (i + 1)..Len(wlog) : wlog[j].ev # "call"]

\* a transport failure remained after the retry policy
TransportFailureRemained == NumCalls >= 1 /\ LastCall.exc # NoExc

\* C16 as stated: in each of send_objs, delete_objs and a read, a
\* transport failure that remains after the retry policy reaches the
\* caller as XynRestError and never as the raw transport exception.
C16_Original ==
    (TransportFailureRemained /\ wpc = "caller_raised") => exc = "XynRestError"

\* a 2xx response was returned whose body is non-empty and not JSON, or
\* whose JSON has not the expected shape
MalformedResponse ==
    /\ wcfg.caller \in {"send", "read"}
    /\ wpc \in {"caller_ok", "caller_raised"}
    /\ NumCalls >= 1 /\ LastCall.exc = NoExc
    /\ response.status \in 200..299
    /\ \/ response.body = "bad"
       \/ ~wcfg.singular /\ response.body \in {"dict", "number"}

\* C17 as stated: a 2xx response with a non-empty body that is not JSON,
\* or (for a non-singular URL) whose JSON is neither a list nor a dict
\* holding the multi-result key, makes the write path and the read path
\* raise XynRestError and no other exception type.
C17_Original ==
    MalformedResponse => (wpc = "caller_raised" /\ exc = "XynRestError")

\* ---- the endpoint resolver
\* the singular flag of the declared candidate at position k
FlagOf(k) == IF ecfg.model_urls[k].singular THEN "True" ELSE "False"

\* every placeholder of the declared candidate at position k can be filled
\* from the secondary values of the latest call
CanFill(k) ==
    \/ ecfg.model_urls[k].path # "{id}"
    \/ \E x \in 1..Len(last_call.secondary_values) :
            EHasId[last_call.secondary_values[x]]

\* <<preference position, method position, candidate position>> of every
\* eligible candidate of the latest call
EligibleTriples ==
    {t \in (1..Len(last_call.order)) \X (1..Len(last_call.methods))
            \X (1..Len(ecfg.model_urls)) :
        /\ last_call.order[t[1]] \in {"None", FlagOf(t[3])}
        /\ last_call.methods[t[2]] \in ecfg.model_urls[t[3]].methods
        /\ CanFill(t[3])}

\* the lexicographic order on triples
LexBefore(a, b) ==
    \/ a[1] < b[1]
    \/ a[1] = b[1] /\ a[2] < b[2]
    \/ a[1] = b[1] /\ a[2] = b[2] /\ a[3] < b[3]

\* C18: for every candidate list, method list and singular-preference
\* list, url_for_endpoint returns the eligible candidate that is smallest
\* in the lexicographic order (preference position, method position,
\* declared position), carrying exactly the method it was reached under;
\* so an earlier preference wins whatever the methods and positions.  With
\* no eligible candidate it raises or returns none, as raise_if_none says.
C18_LexSmallest ==
    last_call.made =>
        IF EligibleTriples = {}
        THEN last_call.result.kind =
                (IF last_call.raise_if_none THEN "raise" ELSE "none")
        ELSE /\ last_call.result.kind = "url"
             /\ \E t \in EligibleTriples :
                   /\ \A u \in EligibleTriples : u = t \/ LexBefore(t, u)
                   /\ last_call.result.idx = t[3]
                   /\ last_call.result.method = last_call.methods[t[2]]
                   /\ last_call.result.path = ecfg.model_urls[t[3]].path
                   /\ last_call.result.singular = ecfg.model_urls[t[3]].singular

\* singular preferred to plural, POST asked before PUT: the singular
\* candidate declared second is returned with PUT although the plural one
\* declared first supports POST
C18_Witness ==
    /\ last_call.made
    /\ ecfg.model_urls = CreateManyURLs
    /\ last_call.order = <<"True", "False">>
    /\ last_call.methods = <<HTTPPost, HTTPPut>>
    /\ <<2, 1, 1>> \in EligibleTriples
    /\ last_call.result.kind = "url"
    /\ last_call.result.idx = 2 /\ last_call.result.method = HTTPPut

\* the latest call passed no singular preference order
DefaultOrderCall == last_call.made /\ ~last_call.given

ArgsOfLast ==
    MkArgs(last_call.methods, last_call.given, last_call.singular_values,
           last_call.secondary_values, last_call.raise_if_none)

\* C20: url_for_endpoint calls with identical arguments on unchanged model
\* data return the same result every time, also after other calls have
\* resolved other URLs from the same declared list: the result of every
\* call is the one a first call would give on the declared candidates.
C20_SameResult ==
    /\ \A p \in seen : \A q \in seen : p[1] = q[1] => p[2] = q[2]
    /\ last_call.made =>
          /\ <<ArgsOfLast, last_call.result>> \in seen
          /\ last_call.result =
                url_for_endpoint(ecfg.model_urls, last_call.methods, "None",
                                 last_call.order, last_call.secondary_values,
                                 last_call.raise_if_none, EHasId)

\* three calls, one pair of arguments used twice, two different candidates
\* resolved, the latest cache holding a narrowed copy
C20_Witness ==
    /\ ncalls = 3 /\ Cardinality(seen) = 2
    /\ \E p \in seen : \E q \in seen :
          /\ p[2].kind = "url" /\ q[2].kind = "url"
          /\ p[2].idx # q[2].idx
    /\ all_candidate_urls_cache # <<>>
    /\ all_candidate_urls_cache # ecfg.model_urls

\* ---- url_for_send
\* the objects the buffer offered to the generator at the latest request
OfferedObjs == Range(lastReq.selected) \cup Range(lastReq.keep)

\* a declared candidate carries PATCH for the offered objects: it is plural
\* when several are offered, and its placeholder can be filled
PatchResolves ==
    \E k \in 1..Len(cfg.model_urls) :
        /\ HTTPPatch \in cfg.model_urls[k].methods
        /\ Cardinality(OfferedObjs) > 1 => ~cfg.model_urls[k].singular
        /\ \/ cfg.model_urls[k].path # "{id}"
           \/ \E o \in OfferedObjs : cfg.hasId[o]

IsPrefix(a, b) == Len(a) <= Len(b) /\ SubSeq(b, 1, Len(a)) = a

\* the server holds a chain of pages of a non-singular resource: every
\* page is a 200 holding a result list, every page but the last holds the
\* next URL under the results key's dict, the last holds none
PageChain ==
    /\ ~gcfg.singular
    /\ \A k \in 1..Len(gcfg.pages) :
        /\ gcfg.pages[k].status = 200
        /\ gcfg.pages[k].body \in {"envelope", "list"}
        /\ k < Len(gcfg.pages) => gcfg.pages[k].next

\* the request of page k and one yield per element, then the same for the
\* pages after k
RECURSIVE PagesLog(_)
PagesLog(k) ==
    IF k > Len(gcfg.pages) THEN <<>>
    ELSE <<RequestEv(k)>>
         \o [i \in 1..gcfg.pages[k].n |-> YieldEv(k, i)]
         \o PagesLog(k + 1)

Yields(log) == SelectSeq(log, LAMBDA e : e.ev = "yield")

Requests(log) == SelectSeq(log, LAMBDA e : e.ev = "request")

\* C22 as stated: a non-singular read over P >= 1 pages, each page but the
\* last holding a next pointer and the last none, with no maximum count,
\* issues exactly P requests in page order, yields one object per result
\* element in page order then element order, and then ends.
C22_Original ==
    (PageChain /\ gcfg.top = NoTop) =>
        /\ IsPrefix(glog, PagesLog(1))
        /\ gpc # "raised"
        /\ gpc = "ended" => glog = PagesLog(1)

RECURSIVE TotalFrom(_)
TotalFrom(k) ==
    IF k > Len(gcfg.pages) THEN 0 ELSE gcfg.pages[k].n + TotalFrom(k + 1)

\* the objects the pages of the server hold
TotalObjects == TotalFrom(1)

\* a read of a page chain with a maximum count below the total
CappedRead ==
    PageChain /\ gcfg.top # NoTop /\ 1 <= gcfg.top /\ gcfg.top < TotalObjects

\* C23: for every maximum count M with 1 <= M < total, the read yields
\* exactly the first M objects of the concatenation of the pages, and no
\* request is issued once the M-th object has been yielded, whether M is
\* reached in the middle of a page or at its end.
C23_TopStops ==
    CappedRead =>
        /\ IsPrefix(glog, PagesLog(1))
        /\ object_count = Len(Yields(glog))
        /\ object_count <= gcfg.top
        /\ object_count = gcfg.top => glog[Len(glog)].ev = "yield"
        /\ gpc # "raised"
        /\ gpc = "ended" => object_count = gcfg.top

\* the maximum count was reached on the last element of the first page,
\* a second page holding more, and the read ended
C23_Witness ==
    /\ CappedRead
    /\ Len(gcfg.pages) = 2
    /\ gcfg.pages[1].n = gcfg.top
    /\ gcfg.pages[2].n >= 1
    /\ gpc = "ended"
    /\ Yields(glog) = [i \in 1..gcfg.top |-> YieldEv(1, i)]
    /\ Requests(glog) = <<RequestEv(1)>>

\* C24 as stated: for every value of top that is defined, 0 included, the
\* number of objects get_url yields is at most top, whatever the number of
\* objects the server returns per page.
C24_Original == gcfg.top # NoTop => object_count <= gcfg.top

\* the latest entry of glog is the request of a page: its response has
\* just been handled
JustRequested == glog # <<>> /\ glog[Len(glog)].ev = "request"

RequestedPage == gcfg.pages[glog[Len(glog)].page]

\* every element of the pages before page k has been yielded
EarlierYielded(k) ==
    \A j \in 1..(k - 1) : \A i \in 1..gcfg.pages[j].n :
        \E x \in 1..Len(glog) : glog[x] = YieldEv(j, i)

\* C25 as stated: in a read, a 404 on any page ends the stream without
\* error and without yielding any object from that response, the objects
\* of the earlier pages having been yielded; every other status >= 400
\* raises XynRestError and no object of that response is yielded.
C25_Original ==
    /\ \A x \in 1..Len(glog) :
         glog[x].ev = "yield" => gcfg.pages[glog[x].page].status < 400
    /\ (JustRequested /\ RequestedPage.status = 404) =>
         /\ gpc = "ended" /\ gexc = NoExc
         /\ gcfg.top = NoTop => EarlierYielded(glog[Len(glog)].page)
    /\ (JustRequested /\ RequestedPage.status >= 400
            /\ RequestedPage.status # 404) =>
         gpc = "raised" /\ gexc = "XynRestError"

\* ---- the reconciler
\* the latest request of a send got a 2xx response and nothing was raised
SuccessfulWrite ==
    /\ cfg.op = "send" /\ lastReq # NoReq
    /\ lastReq.status \in 200..299 /\ lastReq.raised = "no"

CallsOf(o) == SelectSeq(hcalls, LAMBDA c : c.obj = o)

HandlersOf(o) == [k \in 1..Len(CallsOf(o)) |-> CallsOf(o)[k].handler]

\* the object-local handler if the object has one, then the resource-wide
\* handlers in configured order
LocalThenWide(o) ==
    (IF hcfg.local[o] THEN <<LocalHandler>> ELSE <<>>)
    \o [k \in 1..hcfg.wide |-> k]

\* the call ended the chain: the handler returned true, or the retry
\* directive of the object was set after it
EndsChain(c) == c.returned \/ c.directive # NoRetry

\* C27: for each object of a request that has an error, the error handlers
\* are invoked in the order object-local handler, then resource-wide
\* handlers in configured order, and no handler is invoked after the first
\* one that returns true or after which the object's retry directive is
\* set; handlers are invoked for no object without an error.
C27_HandlerOrder ==
    \A o \in 1..hcfg.n :
        /\ ~hcfg.had_error[o] => CallsOf(o) = <<>>
        /\ IsPrefix(HandlersOf(o), LocalThenWide(o))
        /\ \A k \in 1..(Len(CallsOf(o)) - 1) : ~EndsChain(CallsOf(o)[k])
        /\ (hcfg.had_error[o] /\ hpos > o) =>
             \/ Len(CallsOf(o)) = Len(LocalThenWide(o))
             \/ EndsChain(CallsOf(o)[Len(CallsOf(o))])

\* an object with an error, a handler of its own and two resource-wide
\* handlers: its own handler returned false, the first resource-wide one
\* set a retry directive and returned false, the second was not called
C27_Witness ==
    \E o \in 1..hcfg.n :
        /\ hcfg.had_error[o] /\ hcfg.local[o] /\ hcfg.wide = 2
        /\ hpos > o
        /\ HandlersOf(o) = <<LocalHandler, 1>>
        /\ ~CallsOf(o)[2].returned
        /\ CallsOf(o)[2].directive # NoRetry

\* ---- the default raise set
\* C28 as stated: with no per-method configuration, the statuses that
\* raise for POST, PUT and PATCH are exactly 400, 401, 403 and every
\* status from 500 to 599 inclusive.
C28_Original ==
    (cfg.op = "send" /\ lastReq # NoReq /\ cfg.status_map = "None"
        /\ lastReq.url.method \in {HTTPPost, HTTPPut, HTTPPatch}
        /\ lastReq.status \in 300..599) =>
        (lastReq.raised = "XynRestError" <=>
            lastReq.status \in {400, 401, 403} \cup (500..599))

\* ---- deletes
\* C29 as stated: delete_objs skips every object whose id is not set: such
\* an object is included in no delete request, and a call given only such
\* objects issues no request.
C29_Original ==
    cfg.op = "delete" =>
        /\ lastReq # NoReq =>
             \A i \in 1..Len(lastReq.objs) : cfg.hasId[lastReq.objs[i]]
        /\ (\A o \in Objs : ~cfg.hasId[o]) => numRequests = 0

\* C30: in delete_objs, a response with status >= 300 (5xx included) sets
\* had_error = true on every object of that request and on no object of
\* another request, raises nothing, and the call goes on with the
\* remaining batches and returns normally.
C30_DeleteSoftError ==
    [][(cfg.op = "delete" /\ numRequests' = numRequests + 1
            /\ lastReq'.status >= 300) =>
          /\ \A o \in Objs :
               rs'[o].had_error =
                   (o \in Range(lastReq'.objs) \/ rs[o].had_error)
          /\ lastReq'.raised = "no"
          /\ pc' = "run" /\ err' = NoErr
          /\ Len(objects') + Len(buffer_list') =
                 Len(objects) + Len(buffer_list) - Len(lastReq'.objs)]_vars

\* a delete of two objects in two requests returned: the first request
\* got a status >= 300 and its object has the error, the second got a 200
\* and its object has none
C30_Witness ==
    /\ cfg.op = "delete" /\ cfg.n = 2
    /\ pc = "done"
    /\ numRequests = 2
    /\ lastReq.status = 200 /\ lastReq.objs = <<2>>
    /\ rs[1].had_error /\ ~rs[2].had_error
    /\ \A o \in Objs : txCount[o] = 1

\* ---- the did_send hook
\* C31: send_objs invokes the did_send hook exactly once on every
\* submitted object, skipped objects and objects with a per-object error
\* included, after the last request, when and only when the call ends
\* without a raised error; when the call raises, the hook is invoked on
\* no object, the objects of batches already sent included.
C31_DidSendHook ==
    cfg.op = "send" =>
        /\ \A o \in Objs : hist[o].hooks = IF pc = "done" THEN 1 ELSE 0
        /\ pc = "done" => Len(objects) = 0 /\ Len(buffer_list) = 0

\* a call that returned: one of its objects was skipped, another was sent
\* and has an error, and the hook ran once on each
C31_Witness ==
    /\ cfg.op = "send" /\ pc = "done"
    /\ \E o \in Objs : hist[o].yields = "no" /\ txCount[o] = 0
                       /\ hist[o].hooks = 1
    /\ \E o \in Objs : txCount[o] >= 1 /\ rs[o].had_error /\ hist[o].hooks = 1

\* ---- sessions of concurrent contexts
\* the session context c used for its latest request, 0 when a reset of
\* its own Session came after it or it has made no request
LatestSession(c) ==
    IF clog[c] = <<>> \/ clog[c][Len(clog[c])].ev # "call" THEN 0
    ELSE clog[c][Len(clog[c])].session

\* C32: when two execution contexts run operations side by side, each
\* with its own Session resource, a session reset caused by a transport
\* failure in one context leaves the session of the other context
\* unchanged under every interleaving: the next request of the other
\* context uses the session object it used before.
C32_SessionPerContext ==
    \A c \in Contexts :
        /\ LatestSession(c) # 0 => csession[c].current = LatestSession(c)
        /\ \A i \in 1..Len(clog[c]) : \A j \in 1..Len(clog[c]) :
             (/\ i < j
              /\ clog[c][i].ev = "call" /\ clog[c][j].ev = "call"
              /\ \A k \in i..j : clog[c][k].ev # "reset") =>
                 clog[c][i].session = clog[c][j].session

\* context 2 made a request, then a transport failure in context 1 reset
\* the session of context 1, then context 2 made its next request on the
\* session of its first
C32_Witness ==
    /\ corder = <<2, 1, 2>>
    /\ Len(clog[1]) = 2 /\ clog[1][2] = ResetEv
    /\ Len(clog[2]) = 2
    /\ clog[2][1].ev = "call" /\ clog[2][2].ev = "call"
    /\ clog[2][1].session = clog[2][2].session
    /\ clog[2][1].exc = NoExc

\* ---- termination
\* C33: every send_objs and delete_objs call over a finite list of objects
\* ends, by returning or by raising, after finitely many requests,
\* provided every request returns or fails, whatever the error handlers do
\* (a retry asked for after every transmission included) and whatever
\* whole-buffer, strict-subset and use-singular answers the default URL
\* generators give.
C33_CallEnds == <>(pc \in {"done", "raised"})

\* a call that ended after the generator had answered with a strict
\* subset of the buffer and after an object had been retransmitted up to
\* the ceiling at the request of its error handlers
C33_Witness ==
    /\ pc \in {"done", "raised"}
    /\ "subset" \in gens
    /\ \E o \in Objs : txCount[o] = RetryCeiling + 1 /\ hist[o].always

\* ---- batch size in force
\* C34: no request carries more objects than the batch size in force, and
\* once the URL generator has signalled use-singular the batch size in
\* force is 1 until the operation ends: every request made after the
\* first use-singular signal carries exactly one object.
C34_BatchSizeInForce ==
    [][/\ numRequests' # numRequests =>
            /\ Len(lastReq'.objs) >= 1
            /\ Len(lastReq'.objs) <= send_limit
            /\ lastReq'.limit = send_limit
            /\ "singular" \in gens => Len(lastReq'.objs) = 1
       /\ ("singular" \in gens' /\ pc' = "run") => send_limit' = 1
       /\ Len(buffer_list') <= send_limit']_vars

\* a call with a batch size above one whose generator signalled
\* use-singular and that has since made a second request
C34_Witness ==
    /\ cfg.send_limit > 1
    /\ "singular" \in gens
    /\ numRequests >= 2
    /\ Len(lastReq.objs) = 1
    /\ lastReq.limit = 1

\* ---- retry feed-back order
\* the objects of a request whose state, as the request left it, carries a
\* retry directive with the try count within the ceiling, in the order
\* of transmission
RequeuedOf(req) ==
    LET n == Len(req.objs)
        pos == SelectSeq([i \in 1..n |-> i],
                         LAMBDA i : /\ req.after[i].should_retry_send # NoRetry
                                    /\ req.after[i].try_count <= RetryCeiling)
    IN [j \in 1..Len(pos) |-> req.objs[pos[j]]]

\* C35: after a request, the objects of that request that are marked for
\* retry and are under the retry ceiling are at the front of the pending
\* queue, ahead of every object not yet taken from the queue, in the same
\* relative order in which they were transmitted.
C35_RequeuedInFront ==
    [][(numRequests' # numRequests /\ pc' = "run") =>
          \E again \in {RequeuedOf(lastReq')} :
              /\ Len(objects') = Len(again) + Len(objects)
              /\ ObjsOf(SubSeq(objects', 1, Len(again))) = again
              /\ SubSeq(objects', Len(again) + 1, Len(objects')) = objects]_vars

\* a request of two objects, both requeued: the queue holds them in the
\* order of transmission, the second with its payload to be built again
C35_Witness ==
    /\ pc = "run"
    /\ lastReq # NoReq
    /\ Len(lastReq.objs) = 2
    /\ RequeuedOf(lastReq) = lastReq.objs
    /\ ObjsOf(objects) = lastReq.objs
    /\ objects[1].built /\ ~objects[2].built
    /\ buffer_list = <<>>

\* ---- calls and stages of one _wrap_request
\* entry i of wlog is a handler() call that returned a response
ReturnedCall(i) == wlog[i].ev = "call" /\ wlog[i].exc = NoExc

\* entry i of wlog is the retry of the transient-status stage: a call made
\* straight after a call that returned
TransientRetry(i) == i > 1 /\ wlog[i].ev = "call" /\ ReturnedCall(i - 1)

\* C36: one _wrap_request call invokes the request builder at least once
\* and at most 4 times (at most 2 with retries disabled) and refreshes the
\* token at most once; the retry stages run in the fixed order transport
\* failure, status 401, transient status, and none is revisited: a 401
\* received in answer to the transient-status retry is returned without a
\* token refresh.
C36_CallsAndStages ==
    /\ wpc \notin {"idle", "try"} => NumCalls >= 1
    /\ NumCalls <= 4
    /\ ~RetriesEnabled => NumCalls <= 2
    /\ NumRefresh <= 1
    /\ \A i \in 1..Len(wlog) :
          /\ wlog[i].ev = "reset" => i = 2 /\ wlog[1].exc # NoExc
          /\ wlog[i].ev = "refresh" =>
                /\ i > 1 /\ ReturnedCall(i - 1) /\ wlog[i - 1].status = 401
                /\ i < Len(wlog) => wlog[i + 1].ev = "call"
                /\ \A j \in 1..Len(wlog) : j > i => wlog[j].ev = "call"
          /\ TransientRetry(i) =>
                /\ i = Len(wlog)
                /\ RetriesEnabled
                /\ wlog[i - 1].status \in {500, 502, 503, 504}
                /\ wpc \in {"returned", "caller_ok", "caller_raised"} /\ wlog[i].exc = NoExc
                      => response.status = wlog[i].status
          /\ ~(i > 1 /\ wlog[i].ev = "call" /\ wlog[i - 1].ev = "call"
               /\ wlog[i - 1].exc # NoExc)

\* four calls, every stage taken once: the first attempt fails, the
\* second gets 401, the call after the refresh gets 503, and the 401
\* that answers the last retry is returned with no second refresh
C36_Witness ==
    /\ wpc = "returned"
    /\ NumCalls = 4 /\ NumRefresh = 1 /\ Len(wlog) = 6
    /\ wlog[1].exc # NoExc /\ wlog[2].ev = "reset"
    /\ wlog[3].status = 401 /\ wlog[4].ev = "refresh"
    /\ wlog[5].status = 503
    /\ wlog[6].status = 401 /\ response.status = 401

\* ---- the url given to send_objs
\* C37 as stated: when send_objs is given a url, that url is appended to
\* the candidate URL for every method the URL generator tries: the URL of
\* each request contains it, whether the request is sent by PATCH, POST or
\* PUT.
C37_Original ==
    (cfg.op = "send" /\ cfg.url # "None" /\ lastReq # NoReq) =>
        lastReq.url.appended = cfg.url

\* ---- invocations of the payload builder
\* the latest request carried object o and left it with directive d
LeftWith(req, o, d) ==
    \E k \in 1..Len(req.objs) :
        req.objs[k] = o /\ req.after[k].should_retry_send = d

\* C38: in send_objs the payload builder is invoked for an object when it
\* is first taken from the queue, and again only when it is taken after a
\* retry with EXPORT_JSON_AGAIN: a step invokes the builder exactly when
\* it takes a bare object from the head of the queue, and a bare object in
\* the queue is one never taken or one the latest request requeued with
\* EXPORT_JSON_AGAIN.  An object requeued with AS_IS, or returned to the
\* queue by the use-singular fallback, is queued with the payload built
\* earlier and is taken without a call of the builder.
C38_BuilderCalls ==
    [][cfg.op = "send" =>
        /\ exported' # 0 <=>
              /\ objects # <<>> /\ objects' = Tail(objects)
              /\ ~Head(objects).built
              /\ exported' = Head(objects).obj
        /\ \A i \in 1..Len(objects) :
              (txCount[objects[i].obj] = 0 /\ hist[objects[i].obj].yields = "?")
                  => ~objects[i].built
        /\ \A i \in 1..Len(objects') :
              LET o == objects'[i].obj
              IN IF numRequests' # numRequests /\ o \in Range(lastReq'.objs)
                 THEN objects'[i].built <=> LeftWith(lastReq', o, AS_IS)
                 ELSE \/ \E j \in 1..Len(objects) : objects[j] = objects'[i]
                      \/ /\ objects'[i].built
                         /\ \E j \in 1..Len(buffer_list) : buffer_list[j] = objects'[i]
        /\ \A j \in 1..Len(buffer_list') : buffer_list'[j].built]_vars

\* an object transmitted once and requeued with AS_IS has just been taken
\* from the queue again: the builder was not called
C38_Witness ==
    /\ cfg.op = "send" /\ pc = "run"
    /\ exported = 0
    /\ numRequests = 1 /\ Len(lastReq.objs) = 1
    /\ LeftWith(lastReq, lastReq.objs[1], AS_IS)
    /\ buffer_list = <<[obj |-> lastReq.objs[1], built |-> TRUE]>>

\* ---- order of transmission after the fallback
\* C39 as stated: after the use-singular fallback the objects that were in
\* the buffer are transmitted one by one in the order in which they were
\* submitted.  Objects are numbered in the order of submission; with no
\* retry directive set, consecutive requests made after the fallback
\* carry objects of increasing number.
C39_Original ==
    [][("singular" \in gens /\ numRequests' # numRequests /\ numMarks' = 0
        /\ lastReq # NoReq /\ lastReq.limit = 1 /\ send_limit < cfg.send_limit)
          => lastReq'.objs[1] > lastReq.objs[1]]_vars

\* ---- requests to singular URLs
\* C40: whenever send_objs makes a request to a URL resolved as singular,
\* exactly one object is sent with it, and the assertion 'Got more objects
\* that url supports' of _send_objs_to_url never fails with the default URL
\* generator: a buffer of more than one object is only ever matched to a
\* non-singular candidate.
C40_SingularCarriesOne ==
    cfg.op = "send" =>
        /\ err.where # "singular"
        /\ lastReq # NoReq =>
              /\ lastReq.url.singular => Len(lastReq.objs) = 1
              /\ Len(lastReq.objs) + Len(lastReq.keep) > 1 => ~lastReq.url.singular

\* a send at a batch size above one that, after the use-singular signal
\* for its buffer, made a request to a singular URL with one object
C40_Witness ==
    /\ cfg.op = "send" /\ cfg.send_limit > 1
    /\ "singular" \in gens
    /\ lastReq # NoReq /\ lastReq.url.singular
    /\ Len(lastReq.objs) = 1
    /\ err = NoErr

====
